---- MODULE Spec2Model ----
(***************************************************************************)
(* Funding-carry hedge bot: the orchestrator loop of src/src/main.py, the  *)
(* DryRunExecutor of src/src/executor.py, the LiveExecutor of              *)
(* src/src/live_executor.py and the order placement / verification of      *)
(* src/src/hyperliquid_trade_client.py.                                    *)
(*                                                                         *)
(* Time is counted in abstract milliseconds, premium and funding in units  *)
(* of 1e-6.  The exchange is an environment: it fills or                   *)
(* does not fill an order, answers with a success or an error response,    *)
(* and its queries may fail; the client computes ok/verified from what it  *)
(* reads before and after the order, exactly as the code does.             *)
(***************************************************************************)
EXTENDS Integers, Sequences, FiniteSets, TLC

VARIABLES
    pc,                 \* "startup" before main() reaches the loop, then "loop"
    cfg,                \* effective configuration (main.py 316-328)
    position,           \* DryRunExecutor.position
    stateFile,          \* content of configs/state.json
    live_enabled,       \* main.py 328
    last_seen_time,     \* main.py 543
    last_trade_ms,      \* main.py 544
    pending,            \* pending_funding_validation, main.py 551
    force_entry,        \* test_force_entry_once_available, main.py 552
    force_gate,         \* test_force_gate_once_available, main.py 553
    ex,                 \* exchange truth: signed perp size and spot base balance per coin
    legFailed,          \* history: some leg of a live hedge failed, was unverified or raised
    last                \* history: what the last step did (orders, results, statuses)

vars == <<pc, cfg, position, stateFile, live_enabled, last_seen_time, last_trade_ms,
          pending, force_entry, force_gate, ex, legFailed, last>>

----------------------------------------------------------------------------
(* Bounds of the model *)

MaxTime == 2
MaxPos == 1
MaxBal == 1

(* Tracked markets (src.universe.COINS) in polling order *)
CoinSeq == <<"A", "B">>
COINS == {CoinSeq[i] : i \in 1..Len(CoinSeq)}

(* Configuration values, in model units *)
COOLDOWN_MS == 3
FUNDING_INTERVAL_MS == 1
POST_FUNDING_VALIDATE_DELAY_MS == 1
PREM_ENTRY == 300
FUND_ENTRY == 6
PREM_EXIT == 200
FUND_EXIT == 5
FUNDING_HORIZON_HOURS == 24
FEE_RATE_OPEN == 450
FEE_RATE_CLOSE == 450
FUNDING_FEE_MULTIPLE_X2 == 4
BASE_NOTIONAL_X_USD == 100

PremVals == {-300, 250, 300}
FundRawVals == {-500, 3, 20, 500}

NoTime == -1

----------------------------------------------------------------------------
(* Data model *)

NoPosition ==
    [present |-> FALSE, coin |-> "", side |-> "", is_open |-> FALSE, opened_at_ms |-> 0, size |-> 0]

PositionState(coin, side, is_open, opened_at_ms, size) ==
    [present |-> TRUE, coin |-> coin, side |-> side, is_open |-> is_open,
     opened_at_ms |-> opened_at_ms, size |-> size]

Snapshot(coin, fundingRate, premium, time) ==
    [coin |-> coin, fundingRate |-> fundingRate, premium |-> premium, time |-> time]

StrategyDecision(action, side, score, reason) ==
    [action |-> action, side |-> side, score |-> score, reason |-> reason]

NoResult == [present |-> FALSE, ok |-> FALSE, verified |-> FALSE, verify_reason |-> "", leg |-> ""]

Result(leg, ok, verified, verify_reason) ==
    [present |-> TRUE, ok |-> ok, verified |-> verified, verify_reason |-> verify_reason, leg |-> leg]

Abs(x) == IF x >= 0 THEN x ELSE -x

----------------------------------------------------------------------------
(* The exchange as seen by one client call.  fault = "pre": the call raises *)
(* before any order is sent (mid price, size rounding, position query);    *)
(* fault = "post": the order is sent and the call raises afterwards;       *)
(* fill: the exchange executes the order; resp_ok: the response reports    *)
(* success; vis: the spot balance reads return a value for the base asset. *)

NoBal == -1

PerpOutcomes ==
    {[fault |-> "pre", fill |-> FALSE, resp_ok |-> FALSE, vis |-> TRUE]}
    \cup {[fault |-> "post", fill |-> f, resp_ok |-> FALSE, vis |-> TRUE] : f \in BOOLEAN}
    \cup {[fault |-> "none", fill |-> f, resp_ok |-> r, vis |-> TRUE] : f \in BOOLEAN, r \in BOOLEAN}

SpotOutcomes ==
    {[fault |-> "pre", fill |-> FALSE, resp_ok |-> FALSE, vis |-> TRUE]}
    \cup {[fault |-> "post", fill |-> f, resp_ok |-> FALSE, vis |-> TRUE] : f \in BOOLEAN}
    \cup {[fault |-> "none", fill |-> f, resp_ok |-> r, vis |-> v] :
             f \in BOOLEAN, r \in BOOLEAN, v \in BOOLEAN}

NoRead == -99

(* One call of the trade client as the hedge engine sees it, with what the  *)
(* call read before and after the order (NoRead: the read did not happen)   *)
Call(leg, side, coin, notional_usd, reduce_only, use_avail, sent, raised, size, resp_ok, before, after, res) ==
    [leg |-> leg, side |-> side, coin |-> coin, notional_usd |-> notional_usd,
     reduce_only |-> reduce_only, use_avail |-> use_avail, sent |-> sent,
     raised |-> raised, size |-> size, resp_ok |-> resp_ok, before |-> before,
     after |-> after, res |-> res]

(* HyperliquidTradeClient._response_ok applied to the exchange response *)
_response_ok(resp_ok) == resp_ok

(* HyperliquidTradeClient._verify_position_change *)
_verify_position_change(is_buy, reduce_only, before_szi, after_szi) ==
    LET delta == after_szi - before_szi IN
    IF reduce_only
    THEN IF before_szi = 0
         THEN [verified |-> FALSE, reason |-> "reduce_only_with_no_position"]
         ELSE IF Abs(after_szi) < Abs(before_szi)
              THEN [verified |-> TRUE, reason |-> "reduced_position"]
              ELSE [verified |-> FALSE, reason |-> "position_not_reduced"]
    ELSE IF is_buy /\ delta > 0
         THEN [verified |-> TRUE, reason |-> "increased_long"]
         ELSE IF ~is_buy /\ delta < 0
              THEN [verified |-> TRUE, reason |-> "increased_short"]
              ELSE [verified |-> FALSE, reason |-> "position_not_changed"]

(* HyperliquidTradeClient.place_order / place_perp_order: one call under    *)
(* exchange behaviour o, from exchange state e.  A notional-sized order is  *)
(* one unit; a reduce-only order is the full size read before the order.    *)
place_order(coin, side, notional_usd, reduce_only, o, e) ==
    LET is_buy == side = "BUY"
        before_szi == e.perp[coin]
        sz == IF reduce_only THEN Abs(before_szi) ELSE 1
        target == IF reduce_only THEN 0
                  ELSE IF is_buy THEN before_szi + sz ELSE before_szi - sz
        filled == o.fill /\ Abs(target) <= MaxPos
        after_szi == IF filled THEN target ELSE before_szi
        e2 == [e EXCEPT !.perp[coin] = after_szi]
        v == _verify_position_change(is_buy, reduce_only, before_szi, after_szi)
        ok == _response_ok(o.resp_ok) /\ v.verified
    IN  IF o.fault = "pre" \/ (reduce_only /\ before_szi = 0)
        THEN [raised |-> TRUE, ex |-> e,
              call |-> Call("perp", side, coin, notional_usd, reduce_only, FALSE, FALSE, TRUE, 0,
                            FALSE, NoRead, NoRead, NoResult)]
        ELSE IF o.fault = "post"
        THEN [raised |-> TRUE, ex |-> e2,
              call |-> Call("perp", side, coin, notional_usd, reduce_only, FALSE, TRUE, TRUE, sz,
                            FALSE, before_szi, NoRead, NoResult)]
        ELSE [raised |-> FALSE, ex |-> e2,
              call |-> Call("perp", side, coin, notional_usd, reduce_only, FALSE, TRUE, FALSE, sz,
                            o.resp_ok, before_szi, after_szi,
                            Result("perp", ok, v.verified, v.reason))]

(* HyperliquidTradeClient.place_spot_order *)
place_spot_order(base_coin, side, notional_usd, use_available_base_size_for_sell, o, e) ==
    LET is_buy == side = "BUY"
        bal == e.spot[base_coin]
        before_bal == IF o.vis THEN bal ELSE NoBal
        sz == IF ~is_buy /\ use_available_base_size_for_sell /\ before_bal # NoBal /\ before_bal > 0
              THEN before_bal ELSE 1
        target == IF is_buy THEN bal + sz ELSE bal - sz
        filled == o.fill /\ target >= 0 /\ target <= MaxBal
        new_bal == IF filled THEN target ELSE bal
        after_bal == IF o.vis THEN new_bal ELSE NoBal
        e2 == [e EXCEPT !.spot[base_coin] = new_bal]
        ok == _response_ok(o.resp_ok)
        both == before_bal # NoBal /\ after_bal # NoBal
        delta == after_bal - before_bal
        verified == IF both THEN (IF is_buy THEN delta > 0 ELSE delta < 0) ELSE ok
        verify_reason == IF both
                         THEN (IF verified THEN "base_balance_changed" ELSE "base_balance_unchanged")
                         ELSE "balance_snapshot_unavailable"
    IN  IF o.fault = "pre"
        THEN [raised |-> TRUE, ex |-> e,
              call |-> Call("spot", side, base_coin, notional_usd, FALSE,
                            use_available_base_size_for_sell, FALSE, TRUE, 0,
                            FALSE, NoRead, NoRead, NoResult)]
        ELSE IF o.fault = "post"
        THEN [raised |-> TRUE, ex |-> e2,
              call |-> Call("spot", side, base_coin, notional_usd, FALSE,
                            use_available_base_size_for_sell, TRUE, TRUE, sz,
                            FALSE, before_bal, NoRead, NoResult)]
        ELSE [raised |-> FALSE, ex |-> e2,
              call |-> Call("spot", side, base_coin, notional_usd, FALSE,
                            use_available_base_size_for_sell, TRUE, FALSE, sz,
                            o.resp_ok, before_bal, after_bal,
                            Result("spot", ok /\ verified, verified, verify_reason))]


----------------------------------------------------------------------------
(* LiveExecutor (src/src/live_executor.py) *)

OrderPlan(kind, coin, side, notional_usd, reduce_only) ==
    [kind |-> kind, coin |-> coin, side |-> side, notional_usd |-> notional_usd,
     reduce_only |-> reduce_only]

(* LiveExecutor.preview = build_intent + build_plan; sends nothing *)
preview(snap, kind, side, reason) ==
    OrderPlan(kind, snap.coin, side, BASE_NOTIONAL_X_USD, kind # "OPEN")

ShortSides == {"SHORT_PERP", "SHORT_PERP_LONG_SPOT"}

ExecRet(raised, res, calls, e) ==
    [raised |-> raised, res |-> res, calls |-> calls, ex |-> e]

(* the spot check of live_executor.py 189 left out *)
spot_open_failed_never(spot) == FALSE

(* live_executor.py 189: if not getattr(spot, "ok", False) *)
spot_open_failed(spot) == ~spot.ok

(* live_executor.py 201: if not perp.ok or not perp.verified *)
perp_open_failed(perp) == ~perp.ok \/ ~perp.verified

(* the check of live_executor.py 235 with "and" for "or" *)
perp_close_failed_and(perp) == ~perp.ok /\ ~perp.verified

(* live_executor.py 235: if not perp.ok or not perp.verified *)
perp_close_failed(perp) == ~perp.ok \/ ~perp.verified

(* live_executor.py 244: if not getattr(spot, "ok", False) *)
spot_close_failed(spot) == ~spot.ok

(* the rollback of live_executor.py 203-212 left out *)
rollback_spot_skipped(plan, s, p) ==
    {ExecRet(FALSE, p.call.res, <<s.call, p.call>>, p.ex)}

(* The perp leg of an OPEN failed after the spot leg was bought: sell the   *)
(* spot back, swallow any exception of the sell-back, return the perp result *)
rollback_spot(plan, s, p) ==
    { LET r == place_spot_order(plan.coin, "SELL", plan.notional_usd, TRUE, o3, p.ex)
      IN  ExecRet(FALSE, p.call.res, <<s.call, p.call, r.call>>, r.ex)
      : o3 \in SpotOutcomes }

(* execute(OPEN) on the short-perp side after the spot BUY returned ok *)
open_perp_leg(plan, s) ==
    UNION { LET p == place_order(plan.coin, "SELL", plan.notional_usd, FALSE, o2, s.ex)
            IN  IF p.raised
                THEN {ExecRet(TRUE, NoResult, <<s.call, p.call>>, p.ex)}
                ELSE IF perp_open_failed(p.call.res)
                THEN rollback_spot(plan, s, p)
                ELSE {ExecRet(FALSE, p.call.res, <<s.call, p.call>>, p.ex)}
            : o2 \in PerpOutcomes }

(* execute(CLOSE) on the short-perp side after the perp leg verified *)
close_spot_leg(plan, p) ==
    { LET s == place_spot_order(plan.coin, "SELL", plan.notional_usd, TRUE, o2, p.ex)
      IN  IF s.raised
          THEN ExecRet(TRUE, NoResult, <<p.call, s.call>>, s.ex)
          ELSE IF spot_close_failed(s.call.res)
          THEN ExecRet(FALSE, Result("exec", FALSE, FALSE, "spot_close_failed_after_perp_close"),
                       <<p.call, s.call>>, s.ex)
          ELSE ExecRet(FALSE, p.call.res, <<p.call, s.call>>, s.ex)
      : o2 \in SpotOutcomes }

(* the long-perp OPEN attempted with a perp BUY instead of refused *)
open_long_attempted(plan, e) ==
    { LET p == place_order(plan.coin, "BUY", plan.notional_usd, FALSE, o1, e)
      IN  IF p.raised
          THEN ExecRet(TRUE, NoResult, <<p.call>>, p.ex)
          ELSE ExecRet(FALSE, p.call.res, <<p.call>>, p.ex)
      : o1 \in PerpOutcomes }

(* live_executor.py 216-222: OPEN on the long-perp side needs a spot borrow *)
(* and is refused before any order                                          *)
open_long_unsupported(plan, e) ==
    {ExecRet(FALSE, Result("exec", FALSE, FALSE, "unsupported_long_perp_short_spot_in_v1"),
             <<>>, e)}

(* LiveExecutor.execute: the set of ways one call can end, each with the    *)
(* result (or the exception), the client calls made in order, and the       *)
(* exchange state left behind                                               *)
execute(plan, safe_mode, e) ==
    IF safe_mode
    THEN {ExecRet(FALSE, NoResult, <<>>, e)}
    ELSE IF plan.kind = "OPEN"
    THEN IF plan.side \in ShortSides
         THEN UNION { LET s == place_spot_order(plan.coin, "BUY", plan.notional_usd, FALSE, o1, e)
                      IN  IF s.raised
                          THEN {ExecRet(TRUE, NoResult, <<s.call>>, s.ex)}
                          ELSE IF spot_open_failed(s.call.res)
                          THEN {ExecRet(FALSE, Result("exec", FALSE, FALSE, "spot_open_failed"),
                                        <<s.call>>, s.ex)}
                          ELSE open_perp_leg(plan, s)
                      : o1 \in SpotOutcomes }
         ELSE open_long_unsupported(plan, e)
    ELSE IF plan.side \in ShortSides
    THEN UNION { LET p == place_order(plan.coin, "BUY", plan.notional_usd, TRUE, o1, e)
                 IN  IF p.raised
                     THEN {ExecRet(TRUE, NoResult, <<p.call>>, p.ex)}
                     ELSE IF perp_close_failed(p.call.res)
                     THEN {ExecRet(FALSE, p.call.res, <<p.call>>, p.ex)}
                     ELSE close_spot_leg(plan, p)
                 : o1 \in PerpOutcomes }
    ELSE { LET p == place_order(plan.coin, "SELL", plan.notional_usd, TRUE, o1, e)
           IN  IF p.raised
               THEN ExecRet(TRUE, NoResult, <<p.call>>, p.ex)
               ELSE ExecRet(FALSE, p.call.res, <<p.call>>, p.ex)
           : o1 \in PerpOutcomes }

----------------------------------------------------------------------------
(* Position state store (state.py) and DryRunExecutor (src/src/executor.py) *)

(* The content of the state file.  kind is "missing" (no file),            *)
(* "unparsable" (empty, truncated or otherwise not JSON), "array" (JSON     *)
(* that is not an object), "object_no_position" (an object without the      *)
(* position key), "null" ({"position": null}), "scalar" (position is not an *)
(* object) or "pos" (position is an object holding the keys in keys, with   *)
(* the values of position).                                                 *)
StateFile(kind, keys, pos) == [kind |-> kind, keys |-> keys, position |-> pos]

NoFile == StateFile("missing", {}, NoPosition)

(* the required set of load_position and the fields of the dataclass *)
RequiredKeys == {"coin", "side", "is_open", "opened_at_ms"}
DataclassKeys == RequiredKeys \cup {"size", "entry_px"}

(* the classes an `except Exception` clause catches among those raised here *)
ExceptionClasses == {"OSError", "JSONDecodeError", "AttributeError", "TypeError"}

(* the file right after open(path, "w"): empty *)
TruncatedFile == StateFile("unparsable", {}, NoPosition)

(* json.dump of the payload of state.py 32, written in full *)
dumped_payload(pos) ==
    IF pos.present THEN StateFile("pos", DataclassKeys, pos)
                   ELSE StateFile("null", {}, NoPosition)

(* state.py 31 and 33: the parent directory or the file cannot be created   *)
(* (io = "fail"), else the file is opened for writing and truncated          *)
save_open(file, io) ==
    IF io = "fail" THEN [file |-> file, exc |-> "OSError"]
                   ELSE [file |-> TruncatedFile, exc |-> ""]

(* state.py 34: the write fails part-way (io = "fail_write") or completes *)
save_dump(pos, io) ==
    IF io = "fail_write" THEN [file |-> TruncatedFile, exc |-> "OSError"]
                         ELSE [file |-> dumped_payload(pos), exc |-> ""]

(* the body of the try block of save_position *)
save_body(pos, file, io) ==
    LET o == save_open(file, io) IN IF o.exc # "" THEN o ELSE save_dump(pos, io)

(* save_position without the handler of state.py 35-36 *)
save_position_result_unguarded(pos, file, io) ==
    LET body == save_body(pos, file, io)
    IN  [file |-> body.file, raised |-> body.exc # "", logged |-> FALSE]

(* save_position: what it leaves in the file, whether it raised into the    *)
(* caller and whether it logged an error                                    *)
save_position_result(pos, file, io) ==
    LET body == save_body(pos, file, io)
    IN  [file |-> body.file,
         raised |-> body.exc # "" /\ body.exc \notin ExceptionClasses,
         logged |-> body.exc # ""]

(* save_position as the executor and main() use it: the file it leaves *)
save_position(pos, file, io) == save_position_result(pos, file, io).file

(* the try block of load_position (state.py 47-60): the position returned   *)
(* and the exception raised, "" when none                                    *)
load_body(file) ==
    IF file.kind = "unparsable" THEN [position |-> NoPosition, exc |-> "JSONDecodeError"]
    ELSE IF file.kind = "array" THEN [position |-> NoPosition, exc |-> "AttributeError"]
    ELSE IF file.kind \in {"object_no_position", "null"} THEN [position |-> NoPosition, exc |-> ""]
    ELSE IF file.kind # "pos" \/ ~(RequiredKeys \subseteq file.keys)
    THEN [position |-> NoPosition, exc |-> ""]
    ELSE IF ~(file.keys \subseteq DataclassKeys)
    THEN [position |-> NoPosition, exc |-> "TypeError"]
    ELSE [position |-> [file.position EXCEPT !.present = TRUE,
                                             !.size = IF "size" \in file.keys THEN @ ELSE 0],
          exc |-> ""]

(* load_position with a handler for the JSON decode error alone *)
load_position_result_decode_errors_only(file) ==
    IF file.kind = "missing" THEN [position |-> NoPosition, raised |-> FALSE]
    ELSE LET body == load_body(file)
         IN  IF body.exc = "" THEN [position |-> body.position, raised |-> FALSE]
             ELSE [position |-> NoPosition, raised |-> body.exc # "JSONDecodeError"]

(* load_position: the position returned and whether it raised *)
load_position_result(file) ==
    IF file.kind = "missing" THEN [position |-> NoPosition, raised |-> FALSE]
    ELSE LET body == load_body(file)
         IN  IF body.exc = "" THEN [position |-> body.position, raised |-> FALSE]
             ELSE [position |-> NoPosition, raised |-> body.exc \notin ExceptionClasses]

(* load_position *)
load_position(file) == load_position_result(file).position

(* DryRunExecutor.current_side; "" stands for None *)
current_side(pos) ==
    IF ~pos.present THEN "" ELSE IF pos.is_open THEN pos.side ELSE ""

ExecutorRet(pos, file, status) == [position |-> pos, stateFile |-> file, status |-> status]

(* DryRunExecutor.open_position *)
open_position(pos, file, snap, side, io) ==
    LET new == PositionState(snap.coin, side, TRUE, snap.time, 0)
    IN  ExecutorRet(new, save_position(new, file, io), "OPENED")

(* DryRunExecutor.close_position *)
close_position(pos, file, snap, io) ==
    IF ~pos.present \/ ~pos.is_open
    THEN ExecutorRet(pos, file, "CLOSE_SKIPPED | no open position")
    ELSE LET new == [pos EXCEPT !.is_open = FALSE]
         IN  ExecutorRet(new, save_position(new, file, io), "CLOSED")

(* on_decision without the already-in-position guard of executor.py 57-58 *)
on_decision_no_held_guard(pos, file, snap, d, io) ==
    IF d.action = "OPEN"
    THEN IF d.side = ""
         THEN ExecutorRet(pos, file, "OPEN_SKIPPED | missing side")
         ELSE open_position(pos, file, snap, d.side, io)
    ELSE IF d.action = "CLOSE"
    THEN IF current_side(pos) = ""
         THEN ExecutorRet(pos, file, "CLOSE_SKIPPED | already flat")
         ELSE close_position(pos, file, snap, io)
    ELSE ExecutorRet(pos, file, "HOLD | no action")

(* DryRunExecutor.on_decision *)
on_decision(pos, file, snap, d, io) ==
    IF d.action = "OPEN"
    THEN IF current_side(pos) # ""
         THEN ExecutorRet(pos, file, "OPEN_SKIPPED | already in position")
         ELSE IF d.side = ""
         THEN ExecutorRet(pos, file, "OPEN_SKIPPED | missing side")
         ELSE open_position(pos, file, snap, d.side, io)
    ELSE IF d.action = "CLOSE"
    THEN IF current_side(pos) = ""
         THEN ExecutorRet(pos, file, "CLOSE_SKIPPED | already flat")
         ELSE close_position(pos, file, snap, io)
    ELSE ExecutorRet(pos, file, "HOLD | no action")


----------------------------------------------------------------------------
(* Strategy decision engine *)

NoVal == -9999

(* FundingPremiumStrategy.__init__: the four thresholds of an instance *)
FundingPremiumStrategy(prem_entry, fund_entry, prem_exit, fund_exit) ==
    [prem_entry |-> prem_entry, fund_entry |-> fund_entry,
     prem_exit |-> prem_exit, fund_exit |-> fund_exit]

(* the instance main() builds from the configured thresholds *)
strat == FundingPremiumStrategy(PREM_ENTRY, FUND_ENTRY, PREM_EXIT, FUND_EXIT)

(* decide_open with the carry gate testing the sign of the premium alone *)
decide_open_premium_sign_only(self, s) ==
    IF s.premium = NoVal \/ s.fundingRate = NoVal
    THEN StrategyDecision("HOLD", "", 0, "missing_data")
    ELSE LET prem == s.premium
             fund == s.fundingRate
         IN  IF prem > 0
             THEN IF prem >= self.prem_entry /\ fund >= self.fund_entry
                  THEN StrategyDecision("OPEN", "SHORT_PERP_LONG_SPOT", prem + fund, "valid_short_carry_entry")
                  ELSE StrategyDecision("HOLD", "", prem + fund, "short_carry_but_below_entry_thresholds")
             ELSE IF prem < 0
             THEN IF (-prem) >= self.prem_entry /\ (-fund) >= self.fund_entry
                  THEN StrategyDecision("OPEN", "LONG_PERP_SHORT_SPOT", (-prem) + (-fund), "valid_long_carry_entry")
                  ELSE StrategyDecision("HOLD", "", (-prem) + (-fund), "long_carry_but_below_entry_thresholds")
             ELSE StrategyDecision("HOLD", "", 0, "sign_mismatch_not_a_carry")

(* decide_open with the entry thresholds compared strictly *)
decide_open_strict_entry(self, s) ==
    IF s.premium = NoVal \/ s.fundingRate = NoVal
    THEN StrategyDecision("HOLD", "", 0, "missing_data")
    ELSE LET prem == s.premium
             fund == s.fundingRate
         IN  IF prem > 0 /\ fund > 0
             THEN IF prem > self.prem_entry /\ fund > self.fund_entry
                  THEN StrategyDecision("OPEN", "SHORT_PERP_LONG_SPOT", prem + fund, "valid_short_carry_entry")
                  ELSE StrategyDecision("HOLD", "", prem + fund, "short_carry_but_below_entry_thresholds")
             ELSE IF prem < 0 /\ fund < 0
             THEN IF (-prem) > self.prem_entry /\ (-fund) > self.fund_entry
                  THEN StrategyDecision("OPEN", "LONG_PERP_SHORT_SPOT", (-prem) + (-fund), "valid_long_carry_entry")
                  ELSE StrategyDecision("HOLD", "", (-prem) + (-fund), "long_carry_but_below_entry_thresholds")
             ELSE StrategyDecision("HOLD", "", 0, "sign_mismatch_not_a_carry")

(* FundingPremiumStrategy.decide_open (src/new-src/strategy.py) *)
decide_open(self, s) ==
    IF s.premium = NoVal \/ s.fundingRate = NoVal
    THEN StrategyDecision("HOLD", "", 0, "missing_data")
    ELSE LET prem == s.premium
             fund == s.fundingRate
         IN  IF prem > 0 /\ fund > 0
             THEN IF prem >= self.prem_entry /\ fund >= self.fund_entry
                  THEN StrategyDecision("OPEN", "SHORT_PERP_LONG_SPOT", prem + fund, "valid_short_carry_entry")
                  ELSE StrategyDecision("HOLD", "", prem + fund, "short_carry_but_below_entry_thresholds")
             ELSE IF prem < 0 /\ fund < 0
             THEN IF (-prem) >= self.prem_entry /\ (-fund) >= self.fund_entry
                  THEN StrategyDecision("OPEN", "LONG_PERP_SHORT_SPOT", (-prem) + (-fund), "valid_long_carry_entry")
                  ELSE StrategyDecision("HOLD", "", (-prem) + (-fund), "long_carry_but_below_entry_thresholds")
             ELSE StrategyDecision("HOLD", "", 0, "sign_mismatch_not_a_carry")

(* should_close comparing the magnitudes with the exit thresholds without  *)
(* the sign test of strategy.py 84 and 91                                   *)
should_close_magnitude_only(self, s, side) ==
    IF s.premium = NoVal \/ s.fundingRate = NoVal
    THEN StrategyDecision("HOLD", side, 0, "missing_data_hold")
    ELSE LET prem == Abs(s.premium)
             fund == Abs(s.fundingRate)
         IN  IF side = "SHORT_PERP_LONG_SPOT"
             THEN IF prem <= self.prem_exit \/ fund <= self.fund_exit
                  THEN StrategyDecision("CLOSE", side, prem + fund, "short_carry_decayed_below_exit")
                  ELSE StrategyDecision("HOLD", side, prem + fund, "short_carry_ok_hold")
             ELSE IF prem <= self.prem_exit \/ fund <= self.fund_exit
                  THEN StrategyDecision("CLOSE", side, prem + fund, "long_carry_decayed_below_exit")
                  ELSE StrategyDecision("HOLD", side, prem + fund, "long_carry_ok_hold")

(* should_close comparing the magnitudes with the entry thresholds *)
should_close_at_entry_thresholds(self, s, side) ==
    IF s.premium = NoVal \/ s.fundingRate = NoVal
    THEN StrategyDecision("HOLD", side, 0, "missing_data_hold")
    ELSE LET prem == s.premium
             fund == s.fundingRate
         IN  IF side = "SHORT_PERP_LONG_SPOT"
             THEN IF ~(prem > 0 /\ fund > 0)
                  THEN StrategyDecision("CLOSE", side, 0, "short_carry_invalidated_sign_mismatch")
                  ELSE IF prem <= self.prem_entry \/ fund <= self.fund_entry
                  THEN StrategyDecision("CLOSE", side, prem + fund, "short_carry_decayed_below_exit")
                  ELSE StrategyDecision("HOLD", side, prem + fund, "short_carry_ok_hold")
             ELSE IF ~(prem < 0 /\ fund < 0)
                  THEN StrategyDecision("CLOSE", side, 0, "long_carry_invalidated_sign_mismatch")
                  ELSE IF (-prem) <= self.prem_entry \/ (-fund) <= self.fund_entry
                  THEN StrategyDecision("CLOSE", side, (-prem) + (-fund), "long_carry_decayed_below_exit")
                  ELSE StrategyDecision("HOLD", side, (-prem) + (-fund), "long_carry_ok_hold")

(* FundingPremiumStrategy.should_close (src/new-src/strategy.py) *)
should_close(self, s, side) ==
    IF s.premium = NoVal \/ s.fundingRate = NoVal
    THEN StrategyDecision("HOLD", side, 0, "missing_data_hold")
    ELSE LET prem == s.premium
             fund == s.fundingRate
         IN  IF side = "SHORT_PERP_LONG_SPOT"
             THEN IF ~(prem > 0 /\ fund > 0)
                  THEN StrategyDecision("CLOSE", side, 0, "short_carry_invalidated_sign_mismatch")
                  ELSE IF prem <= self.prem_exit \/ fund <= self.fund_exit
                  THEN StrategyDecision("CLOSE", side, prem + fund, "short_carry_decayed_below_exit")
                  ELSE StrategyDecision("HOLD", side, prem + fund, "short_carry_ok_hold")
             ELSE IF ~(prem < 0 /\ fund < 0)
                  THEN StrategyDecision("CLOSE", side, 0, "long_carry_invalidated_sign_mismatch")
                  ELSE IF (-prem) <= self.prem_exit \/ (-fund) <= self.fund_exit
                  THEN StrategyDecision("CLOSE", side, (-prem) + (-fund), "long_carry_decayed_below_exit")
                  ELSE StrategyDecision("HOLD", side, (-prem) + (-fund), "long_carry_ok_hold")

(* The strategy module imported by src/src/main.py names the sides by their *)
(* perp leg (SHORT_PERP, LONG_PERP), as side_expected_receive requires.     *)
PerpSide(side) ==
    IF side = "SHORT_PERP_LONG_SPOT" THEN "SHORT_PERP"
    ELSE IF side = "LONG_PERP_SHORT_SPOT" THEN "LONG_PERP" ELSE side

HedgeSide(side) ==
    IF side \in ShortSides THEN "SHORT_PERP_LONG_SPOT" ELSE "LONG_PERP_SHORT_SPOT"

strat_decide_open(s) ==
    LET d == decide_open(strat, s) IN [d EXCEPT !.side = PerpSide(d.side)]

strat_should_close(s, side) ==
    LET d == should_close(strat, s, HedgeSide(side)) IN [d EXCEPT !.side = side]

----------------------------------------------------------------------------
(* Pure helpers of src/src/main.py *)

(* signed_funding *)
signed_funding(premium, fund_raw) ==
    IF fund_raw < 0 THEN fund_raw
    ELSE IF premium >= 0 THEN fund_raw ELSE -Abs(fund_raw)

(* fetch_latest_snapshot, on a fetch that returned a well-formed latest row *)
fetch_latest_snapshot(coin, t_ms, premium, fund_raw) ==
    Snapshot(coin, signed_funding(premium, fund_raw), premium, t_ms)

(* calc_expected_funding_and_fees; amounts in 1e-6 USD *)
calc_expected_funding_and_fees(funding_rate, notional_usd, horizon_hours, round_trip_fee_rate) ==
    [expected_funding_usd |-> Abs(funding_rate) * notional_usd * horizon_hours,
     est_fees_usd |-> notional_usd * round_trip_fee_rate]

EST_ROUND_TRIP_FEE_RATE ==
    IF FEE_RATE_OPEN + FEE_RATE_CLOSE > 0 THEN FEE_RATE_OPEN + FEE_RATE_CLOSE ELSE 0

(* the comparison of main.py 736 made strict *)
funding_covers_fees_strict(expected_funding_usd, est_fees_usd, multiple_x2) ==
    2 * expected_funding_usd > multiple_x2 * est_fees_usd

(* gate_ok of main.py 736: expected >= FUNDING_FEE_MULTIPLE * fees, with    *)
(* the multiple held as twice its value to stay in the integers            *)
funding_covers_fees(expected_funding_usd, est_fees_usd, multiple_x2) ==
    2 * expected_funding_usd >= multiple_x2 * est_fees_usd

(* main.py 730-736 with the configured notional, horizon, fees and multiple *)
gate_pass(funding_rate) ==
    LET g == calc_expected_funding_and_fees(funding_rate, BASE_NOTIONAL_X_USD,
                                            FUNDING_HORIZON_HOURS, EST_ROUND_TRIP_FEE_RATE)
    IN  funding_covers_fees(g.expected_funding_usd, g.est_fees_usd, FUNDING_FEE_MULTIPLE_X2)

(* compute_next_funding_ms *)
compute_next_funding_ms(snapshot_ms, interval_ms) ==
    ((snapshot_ms \div interval_ms) + 1) * interval_ms

(* side_expected_receive taken to hold for every side and rate *)
side_expected_receive_any(side, rate) == TRUE

(* side_expected_receive *)
side_expected_receive(side, rate) ==
    IF side = "SHORT_PERP" THEN rate > 0
    ELSE IF side = "LONG_PERP" THEN rate < 0
    ELSE FALSE


----------------------------------------------------------------------------
(* One iteration of the PROCESS loop of main() (main.py 595-935) on one    *)
(* snapshot.  m holds the values the iteration reads and writes.            *)

NoPending == [present |-> FALSE, side |-> "", opened_at_ms |-> 0, next_funding_ms |-> 0]

(* What one iteration did: the history the properties are stated over *)
Log0(kind, coin) ==
    [kind |-> kind, coin |-> coin, dup |-> FALSE, validation |-> "none",
     evalOpen |-> FALSE, heldAtEval |-> "", route |-> "", execs |-> <<>>,
     statuses |-> <<>>, raised |-> FALSE, sync |-> "", saved |-> ""]

(* One call of LiveExecutor.execute as the loop sees it *)
ExecSummary(plan, r) ==
    [kind |-> plan.kind, coin |-> plan.coin, side |-> plan.side, raised |-> r.raised,
     ok |-> r.res.ok, verified |-> r.res.verified, reason |-> r.res.verify_reason,
     ncalls |-> Len(r.calls)]

(* a leg of a live hedge failed: it raised, or returned not ok or not verified *)
LegFailure(r) ==
    r.raised \/ \E i \in 1..Len(r.calls) : ~r.calls[i].res.ok \/ ~r.calls[i].res.verified

AddExec(m, plan, r) ==
    [m EXCEPT !.ex = r.ex,
              !.legFailed = @ \/ LegFailure(r),
              !.log.execs = Append(@, ExecSummary(plan, r))]

(* the except clause of main.py 932-935: log and go on to the next snapshot *)
Excepted(m) == [m EXCEPT !.log.raised = TRUE]

Route(m, route) == [m EXCEPT !.log.route = route]

ApplyDecision(m, snap, d, io) ==
    LET r == on_decision(m.position, m.stateFile, snap, d, io)
    IN  [m EXCEPT !.position = r.position, !.stateFile = r.stateFile,
                  !.log.statuses = Append(@, r.status)]

LastStatus(m) == m.log.statuses[Len(m.log.statuses)]

(* the check of main.py 797 / 891 reduced to "not result" *)
FailedResult_missing_only(res) == ~res.present

(* main.py 797 / 891: not result or not result.ok or not result.verified *)
FailedResult(res) == ~res.present \/ ~res.ok \/ ~res.verified

PopPending(m, coin) == [m EXCEPT !.pending[coin] = NoPending]

(* main.py 649-662: enforced close after a failed post-funding validation *)
enforced_close(m, snap, io) ==
    IF current_side(m.position) = ""
    THEN {[m |-> [m EXCEPT !.live_enabled = FALSE], abort |-> FALSE]}
    ELSE LET forced == StrategyDecision("CLOSE", current_side(m.position), 0,
                                        "post_funding_validation_failed")
             plan == preview(snap, "CLOSE", forced.side, forced.reason)
         IN  IF m.live_enabled
             THEN { IF r.raised
                    THEN [m |-> Excepted(AddExec(m, plan, r)), abort |-> TRUE]
                    ELSE [m |-> [ApplyDecision(AddExec(m, plan, r), snap, forced, io)
                                    EXCEPT !.live_enabled = FALSE],
                          abort |-> FALSE]
                    : r \in execute(plan, ~cfg.ENABLE_LIVE, m.ex) }
             ELSE {[m |-> [ApplyDecision(m, snap, forced, io) EXCEPT !.live_enabled = FALSE],
                    abort |-> FALSE]}

(* main.py 628-667: post-funding validation *)
post_funding_validation(m, snap, io) ==
    LET pend == m.pending[snap.coin]
        due == pend.present
               /\ snap.time >= pend.next_funding_ms + POST_FUNDING_VALIDATE_DELAY_MS
    IN  IF ~due
        THEN {[m |-> m, abort |-> FALSE]}
        ELSE IF side_expected_receive(pend.side, snap.fundingRate)
        THEN {[m |-> PopPending([m EXCEPT !.log.validation = "ok"], snap.coin), abort |-> FALSE]}
        ELSE IF ~cfg.ENFORCE_POST_FUNDING_VALIDATION
        THEN {[m |-> PopPending([m EXCEPT !.log.validation = "warn"], snap.coin), abort |-> FALSE]}
        ELSE { IF r.abort THEN r
               ELSE [m |-> PopPending(r.m, snap.coin), abort |-> FALSE]
               : r \in enforced_close([m EXCEPT !.log.validation = "enforced"], snap, io) }

(* main.py 825-839: commit the OPEN to the executor and arm the validation *)
commit_open(m, snap, d_open, io) ==
    LET m1 == ApplyDecision(m, snap, d_open, io)
    IN  IF LastStatus(m1) = "OPENED"
        THEN [m1 EXCEPT !.pending[snap.coin] =
                   [present |-> TRUE, side |-> d_open.side, opened_at_ms |-> snap.time,
                    next_funding_ms |-> compute_next_funding_ms(snap.time, FUNDING_INTERVAL_MS)],
                 !.log.route = "open"]
        ELSE Route(m1, "open")

(* main.py 672-707: the test-force-entry-once rewrite of the decision *)
force_entry_decision(d_open) ==
    IF d_open.reason = "long_carry_but_below_entry_thresholds"
    THEN StrategyDecision("HOLD", "", d_open.score, "long_carry_disabled_one_sided_mode")
    ELSE StrategyDecision("OPEN", "SHORT_PERP", d_open.score,
                          "short_carry_but_below_entry_thresholds_test_force_entry_once")

(* the OPEN path with the `if live_enabled:` test of main.py 795 left out *)
open_execute_ignoring_live(m, snap, d_open, io) ==
    LET plan == preview(snap, "OPEN", d_open.side, d_open.reason)
    IN  { IF r.raised
          THEN Excepted(AddExec(m, plan, r))
          ELSE IF FailedResult(r.res)
          THEN Route([AddExec(m, plan, r) EXCEPT !.live_enabled = FALSE], "open_live_failed")
          ELSE commit_open([AddExec(m, plan, r) EXCEPT !.last_trade_ms[snap.coin] = snap.time],
                           snap, d_open, io)
          : r \in execute(plan, ~cfg.ENABLE_LIVE, m.ex) }

(* main.py 793-839: preview, live execution, commit *)
open_execute(m, snap, d_open, io) ==
    LET plan == preview(snap, "OPEN", d_open.side, d_open.reason)
    IN  IF m.live_enabled
        THEN { IF r.raised
               THEN Excepted(AddExec(m, plan, r))
               ELSE IF FailedResult(r.res)
               THEN Route([AddExec(m, plan, r) EXCEPT !.live_enabled = FALSE], "open_live_failed")
               ELSE commit_open([AddExec(m, plan, r) EXCEPT !.last_trade_ms[snap.coin] = snap.time],
                                snap, d_open, io)
               : r \in execute(plan, ~cfg.ENABLE_LIVE, m.ex) }
        ELSE {commit_open(m, snap, d_open, io)}

(* main.py 672-872: the FLAT branch once the strategy returned d0 *)
flat_decided(m0, snap, d0, io) ==
    LET forced == m0.force_entry /\ d0.action = "HOLD"
                  /\ d0.reason \in {"short_carry_but_below_entry_thresholds",
                                    "long_carry_but_below_entry_thresholds"}
        d_open == IF forced THEN force_entry_decision(d0) ELSE d0
        m == [m0 EXCEPT !.force_entry = IF forced /\ d_open.action = "OPEN" THEN FALSE ELSE @,
                        !.log.evalOpen = TRUE,
                        !.log.heldAtEval = current_side(m0.position)]
        gate0 == gate_pass(snap.fundingRate)
        force_gate_used == ~gate0 /\ m.force_gate /\ d_open.side = "SHORT_PERP"
        gate_ok == gate0 \/ force_gate_used
        mg == IF force_gate_used
              THEN [m EXCEPT !.force_gate = FALSE, !.force_entry = FALSE] ELSE m
        last_trade == mg.last_trade_ms[snap.coin]
        cooldown_active == last_trade # NoTime /\ (snap.time - last_trade) < COOLDOWN_MS
    IN  IF d_open.action # "OPEN"
        THEN {Route(m, "hold_flat")}
        ELSE IF ~side_expected_receive(d_open.side, snap.fundingRate)
        THEN {Route(m, "hold_precheck")}
        ELSE IF ~gate_ok
        THEN {Route(mg, "hold_gate")}
        ELSE IF mg.live_enabled /\ d_open.side = "LONG_PERP"
        THEN {Route(mg, "hold_unsupported_branch")}
        ELSE IF cooldown_active
        THEN {Route(mg, "hold_cooldown")}
        ELSE open_execute(mg, snap, d_open, io)

(* main.py 669-872: FLAT branch *)
flat_branch(m0, snap, io) == flat_decided(m0, snap, strat_decide_open(snap), io)

(* main.py 902-911: commit the CLOSE to the executor *)
commit_close(m, snap, d_close, io) ==
    LET m1 == ApplyDecision(m, snap, d_close, io)
    IN  IF LastStatus(m1) = "CLOSED"
        THEN Route(PopPending(m1, snap.coin), "close")
        ELSE Route(m1, "close")

(* main.py 874-930: IN POSITION branch *)
in_position_branch(m, snap, io) ==
    LET current == current_side(m.position)
        d_close == strat_should_close(snap, current)
        last_trade == m.last_trade_ms[snap.coin]
        plan == preview(snap, "CLOSE", d_close.side, d_close.reason)
    IN  IF d_close.action # "CLOSE"
        THEN {Route(m, "hold_in_position")}
        ELSE IF last_trade # NoTime /\ (snap.time - last_trade) < COOLDOWN_MS
        THEN {Route(m, "hold_cooldown")}
        ELSE IF m.live_enabled
        THEN { IF r.raised
               THEN Excepted(AddExec(m, plan, r))
               ELSE IF FailedResult(r.res)
               THEN Route([AddExec(m, plan, r) EXCEPT !.live_enabled = FALSE], "close_live_failed")
               ELSE commit_close([AddExec(m, plan, r) EXCEPT !.last_trade_ms[snap.coin] = snap.time],
                                 snap, d_close, io)
               : r \in execute(plan, ~cfg.ENABLE_LIVE, m.ex) }
        ELSE {commit_close(m, snap, d_close, io)}

(* main.py 595-935: the whole iteration; the set of states it can end in *)
process_snapshot(m0, snap, io) ==
    IF m0.last_seen_time[snap.coin] = snap.time
    THEN {[m0 EXCEPT !.log.dup = TRUE]}
    ELSE LET m == [m0 EXCEPT !.last_seen_time[snap.coin] = snap.time]
         IN  UNION { IF v.abort THEN {v.m}
                     ELSE IF current_side(v.m.position) = ""
                     THEN flat_branch(v.m, snap, io)
                     ELSE in_position_branch(v.m, snap, io)
                     : v \in post_funding_validation(m, snap, io) }


----------------------------------------------------------------------------
(* Startup of main(): restore the persisted position, then reconcile it     *)
(* with the exchange when live trading is enabled (main.py 464-506)         *)

IOOutcomes == {"ok", "fail"}

(* HyperliquidTradeClient.get_positions: the open positions, in exchange order *)
get_positions(e) == SelectSeq(CoinSeq, LAMBDA c : e.perp[c] # 0)

(* the startup sync with the position restored from the state file kept    *)
(* when the exchange reports no position                                    *)
reconcile_keeps_restored(restored, file, live, e, sync, io) ==
    IF ~live THEN [position |-> restored, stateFile |-> file, sync |-> "skipped"]
    ELSE IF sync = "raise" THEN [position |-> restored, stateFile |-> file, sync |-> "failed"]
    ELSE LET live_positions == get_positions(e)
         IN  IF live_positions = <<>>
             THEN [position |-> restored, stateFile |-> save_position(restored, file, io),
                   sync |-> "flat"]
             ELSE LET coin == live_positions[1]
                      szi == e.perp[coin]
                      side == IF szi > 0 THEN "LONG_PERP" ELSE "SHORT_PERP"
                      synced == PositionState(coin, side, TRUE, 0, Abs(szi))
                  IN  [position |-> synced, stateFile |-> save_position(synced, file, io),
                       sync |-> "exchange"]

(* the rows get_positions returns for exchange e: coin and signed size *)
position_rows(e) ==
    LET coins == get_positions(e)
    IN  [i \in 1..Len(coins) |-> [coin |-> coins[i], szi |-> e.perp[coins[i]]]]

(* main.py 474-502 taking the last reported position instead of the first *)
sync_state_last_reported(restored, file, live_positions, io) ==
    IF live_positions = <<>>
    THEN [position |-> NoPosition, stateFile |-> save_position(NoPosition, file, io),
          sync |-> "flat"]
    ELSE LET pos == live_positions[Len(live_positions)]
             side == IF pos.szi > 0 THEN "LONG_PERP" ELSE "SHORT_PERP"
             synced == PositionState(pos.coin, side, TRUE, 0, Abs(pos.szi))
         IN  [position |-> synced, stateFile |-> save_position(synced, file, io),
              sync |-> "exchange"]

(* main.py 474-502: local and persisted state from the reported positions *)
sync_state(restored, file, live_positions, io) ==
    IF live_positions = <<>>
    THEN [position |-> NoPosition, stateFile |-> save_position(NoPosition, file, io),
          sync |-> "flat"]
    ELSE LET pos == live_positions[1]
             side == IF pos.szi > 0 THEN "LONG_PERP" ELSE "SHORT_PERP"
             synced == PositionState(pos.coin, side, TRUE, 0, Abs(pos.szi))
         IN  [position |-> synced, stateFile |-> save_position(synced, file, io),
              sync |-> "exchange"]

(* main.py 464-506: the position and the state file after the startup sync, *)
(* and the branch taken: skipped (live off), failed (the query raised),     *)
(* flat (the exchange reported no position) or exchange                     *)
reconcile(restored, file, live, e, sync, io) ==
    IF ~live THEN [position |-> restored, stateFile |-> file, sync |-> "skipped"]
    ELSE IF sync = "raise" THEN [position |-> restored, stateFile |-> file, sync |-> "failed"]
    ELSE sync_state(restored, file, position_rows(e), io)

----------------------------------------------------------------------------
(* State machine *)

FlatExchange == [perp |-> [c \in COINS |-> 0], spot |-> [c \in COINS |-> 0]]

InitExchanges ==
    {FlatExchange,
     [perp |-> [c \in COINS |-> IF c = CoinSeq[1] THEN -1 ELSE 0],
      spot |-> [c \in COINS |-> IF c = CoinSeq[1] THEN 1 ELSE 0]]}

InitFiles ==
    {NoFile,
     StateFile("pos", DataclassKeys, PositionState(CoinSeq[1], "SHORT_PERP", TRUE, 0, 0))}

(* The configurations explored: TEST_FORCE_ENTRY_ONCE (an integration-test *)
(* switch) is explored in dry-run processes only                            *)
Configs ==
    {c \in [ENABLE_LIVE : BOOLEAN, ENFORCE_POST_FUNDING_VALIDATION : BOOLEAN,
            TEST_FORCE_ENTRY_ONCE : BOOLEAN] :
        c.TEST_FORCE_ENTRY_ONCE => ~c.ENABLE_LIVE}

Init ==
    /\ pc = "startup"
    /\ cfg \in Configs
    /\ position = NoPosition
    /\ stateFile \in InitFiles
    /\ live_enabled = cfg.ENABLE_LIVE
    /\ last_seen_time = [c \in COINS |-> NoTime]
    /\ last_trade_ms = [c \in COINS |-> NoTime]
    /\ pending = [c \in COINS |-> NoPending]
    /\ force_entry = cfg.TEST_FORCE_ENTRY_ONCE
    /\ force_gate = cfg.TEST_FORCE_ENTRY_ONCE
    /\ ex \in InitExchanges
    /\ cfg.ENABLE_LIVE \/ ex = FlatExchange
    /\ legFailed = FALSE
    /\ last = Log0("init", "")

Startup ==
    /\ pc = "startup"
    /\ \E sync \in {"ok", "raise"}, io \in IOOutcomes :
          LET r == reconcile(load_position(stateFile), stateFile, live_enabled, ex, sync, io)
          IN  /\ position' = r.position
              /\ stateFile' = r.stateFile
              /\ last' = [Log0("startup", "") EXCEPT
                             !.sync = r.sync,
                             !.saved = IF r.sync \in {"flat", "exchange"} THEN io ELSE ""]
    /\ pc' = "loop"
    /\ UNCHANGED <<cfg, live_enabled, last_seen_time, last_trade_ms, pending,
                   force_entry, force_gate, ex, legFailed>>

Locals(coin) ==
    [position |-> position, stateFile |-> stateFile, live_enabled |-> live_enabled,
     last_seen_time |-> last_seen_time, last_trade_ms |-> last_trade_ms,
     pending |-> pending, force_entry |-> force_entry, force_gate |-> force_gate,
     ex |-> ex, legFailed |-> legFailed, log |-> Log0("step", coin)]

Install(m) ==
    /\ position' = m.position
    /\ stateFile' = m.stateFile
    /\ live_enabled' = m.live_enabled
    /\ last_seen_time' = m.last_seen_time
    /\ last_trade_ms' = m.last_trade_ms
    /\ pending' = m.pending
    /\ force_entry' = m.force_entry
    /\ force_gate' = m.force_gate
    /\ ex' = m.ex
    /\ legFailed' = m.legFailed
    /\ last' = m.log

Max(S) == CHOOSE x \in S : \A y \in S : y <= x

(* The exchange stamps the funding rows of all markets from one clock: the  *)
(* latest row of a market is the tick already seen or the next one          *)
Now == Max({last_seen_time[c] : c \in COINS} \cup {0})

SnapshotTimes == {t \in {Now, Now + 1} : t <= MaxTime}

(* One snapshot fetched and processed by the loop *)
ProcessSnapshot ==
    /\ pc = "loop"
    /\ \E coin \in COINS, t_ms \in SnapshotTimes, premium \in PremVals,
          fund_raw \in FundRawVals :
             \E m \in process_snapshot(Locals(coin),
                                       fetch_latest_snapshot(coin, t_ms, premium, fund_raw), "ok") :
                Install(m)
    /\ UNCHANGED <<pc, cfg>>

Next == Startup \/ ProcessSnapshot

Spec == Init /\ [][Next]_vars


----------------------------------------------------------------------------
(* The hedge execution engine on its own: LiveExecutor.execute called with  *)
(* every plan preview can build, from every exchange state in the bounds    *)

ExchangeStates ==
    [perp : [COINS -> (-MaxPos)..MaxPos], spot : [COINS -> 0..MaxBal]]

Plans ==
    {preview(Snapshot(c, 0, 0, 0), k, sd, "") :
        c \in COINS, k \in {"OPEN", "CLOSE"}, sd \in {"SHORT_PERP", "LONG_PERP"}}

ExecLog(plan, safe_mode, r) ==
    [kind |-> "execute", plan |-> plan, safe_mode |-> safe_mode, raised |-> r.raised,
     res |-> r.res, calls |-> r.calls]

InitExec ==
    /\ pc = "execute"
    /\ cfg = [ENABLE_LIVE |-> TRUE, ENFORCE_POST_FUNDING_VALIDATION |-> FALSE,
              TEST_FORCE_ENTRY_ONCE |-> FALSE]
    /\ position = NoPosition
    /\ stateFile = NoFile
    /\ live_enabled = TRUE
    /\ last_seen_time = [c \in COINS |-> NoTime]
    /\ last_trade_ms = [c \in COINS |-> NoTime]
    /\ pending = [c \in COINS |-> NoPending]
    /\ force_entry = FALSE
    /\ force_gate = FALSE
    /\ ex \in ExchangeStates
    /\ legFailed = FALSE
    /\ last = ExecLog(preview(Snapshot(CoinSeq[1], 0, 0, 0), "OPEN", "SHORT_PERP", ""), TRUE,
                      ExecRet(FALSE, NoResult, <<>>, ex))

ExecuteCall ==
    /\ pc = "execute"
    /\ \E plan \in Plans, safe_mode \in BOOLEAN :
          \E r \in execute(plan, safe_mode, ex) :
             /\ ex' = r.ex
             /\ last' = ExecLog(plan, safe_mode, r)
    /\ UNCHANGED <<pc, cfg, position, stateFile, live_enabled, last_seen_time, last_trade_ms,
                   pending, force_entry, force_gate, legFailed>>

NextExec == ExecuteCall

SpecExec == InitExec /\ [][NextExec]_vars


----------------------------------------------------------------------------
(* The strategy on its own: decide_open and should_close of an instance,   *)
(* applied to every snapshot whose premium and funding are missing, zero,   *)
(* or on either side of the instance's exit and entry thresholds, up to     *)
(* magnitudes far above them                                                *)

(* the configured instance, and the same thresholds with funding counted in *)
(* units of 1e-7, which leaves room between fund_exit and fund_entry        *)
StrategyInstances == {strat, FundingPremiumStrategy(300, 60, 200, 50)}

StrategyMagnitudes(exit, entry) == {1, exit, exit + 1, entry - 1, entry, entry + 100000}

StrategyPremiums ==
    LET mags == UNION {StrategyMagnitudes(i.prem_exit, i.prem_entry) : i \in StrategyInstances}
    IN  {NoVal, 0} \cup mags \cup {-x : x \in mags}

StrategyFundings ==
    LET mags == UNION {StrategyMagnitudes(i.fund_exit, i.fund_entry) : i \in StrategyInstances}
    IN  {NoVal, 0} \cup mags \cup {-x : x \in mags}

StrategySides == {"SHORT_PERP_LONG_SPOT", "LONG_PERP_SHORT_SPOT"}

StrategyLog(kind, self, s, side, d) == [kind |-> kind, strat |-> self, snap |-> s, side |-> side, d |-> d]

InitStrategy ==
    /\ pc = "strategy"
    /\ cfg = [ENABLE_LIVE |-> FALSE, ENFORCE_POST_FUNDING_VALIDATION |-> FALSE,
              TEST_FORCE_ENTRY_ONCE |-> FALSE]
    /\ position = NoPosition
    /\ stateFile = NoFile
    /\ live_enabled = FALSE
    /\ last_seen_time = [c \in COINS |-> NoTime]
    /\ last_trade_ms = [c \in COINS |-> NoTime]
    /\ pending = [c \in COINS |-> NoPending]
    /\ force_entry = FALSE
    /\ force_gate = FALSE
    /\ ex = FlatExchange
    /\ legFailed = FALSE
    /\ \E self \in StrategyInstances, prem \in StrategyPremiums, fund \in StrategyFundings :
          last = StrategyLog("snapshot", self, Snapshot(CoinSeq[1], fund, prem, 0), "",
                             StrategyDecision("HOLD", "", 0, ""))

DecideOpen ==
    /\ pc = "strategy"
    /\ last.kind = "snapshot"
    /\ last' = StrategyLog("decide_open", last.strat, last.snap, "",
                           decide_open(last.strat, last.snap))
    /\ UNCHANGED <<pc, cfg, position, stateFile, live_enabled, last_seen_time, last_trade_ms,
                   pending, force_entry, force_gate, ex, legFailed>>

ShouldClose ==
    /\ pc = "strategy"
    /\ last.kind = "snapshot"
    /\ \E current_side_ \in StrategySides :
          last' = StrategyLog("should_close", last.strat, last.snap, current_side_,
                              should_close(last.strat, last.snap, current_side_))
    /\ UNCHANGED <<pc, cfg, position, stateFile, live_enabled, last_seen_time, last_trade_ms,
                   pending, force_entry, force_gate, ex, legFailed>>

NextStrategy == DecideOpen \/ ShouldClose

SpecStrategy == InitStrategy /\ [][NextStrategy]_vars


----------------------------------------------------------------------------
(* Rotation selector (src/new-src/rotate.py), on its own: should_rotate     *)
(* applied to every current pick (or none), candidate, ratio and absolute   *)
(* delta drawn from the sets below.  Scores and abs_delta are in units of   *)
(* 1e-6, the ratio is held as a hundred times its value.                    *)

NoPick == [present |-> FALSE, coin |-> "", side |-> "", score |-> 0]

(* BestPick *)
BestPick(coin, side, score) == [present |-> TRUE, coin |-> coin, side |-> side, score |-> score]

(* should_rotate with the score test of rotate.py 29 ahead of the same-pick *)
(* test of rotate.py 25                                                     *)
should_rotate_score_first(current, candidate, ratio_x100, abs_delta) ==
    IF ~current.present THEN TRUE
    ELSE IF current.score <= 0 THEN TRUE
    ELSE IF candidate.coin = current.coin /\ candidate.side = current.side THEN FALSE
    ELSE /\ candidate.score * 100 >= current.score * ratio_x100
         /\ (candidate.score - current.score) >= abs_delta

(* should_rotate without the current.score <= 0 acceptance of rotate.py 29 *)
should_rotate_no_score_floor(current, candidate, ratio_x100, abs_delta) ==
    IF ~current.present THEN TRUE
    ELSE IF candidate.coin = current.coin /\ candidate.side = current.side THEN FALSE
    ELSE /\ candidate.score * 100 >= current.score * ratio_x100
         /\ (candidate.score - current.score) >= abs_delta

(* should_rotate accepting a candidate that clears either bar *)
should_rotate_either_bar(current, candidate, ratio_x100, abs_delta) ==
    IF ~current.present THEN TRUE
    ELSE IF candidate.coin = current.coin /\ candidate.side = current.side THEN FALSE
    ELSE IF current.score <= 0 THEN TRUE
    ELSE \/ candidate.score * 100 >= current.score * ratio_x100
         \/ (candidate.score - current.score) >= abs_delta

(* should_rotate *)
should_rotate(current, candidate, ratio_x100, abs_delta) ==
    IF ~current.present THEN TRUE
    ELSE IF candidate.coin = current.coin /\ candidate.side = current.side THEN FALSE
    ELSE IF current.score <= 0 THEN TRUE
    ELSE /\ candidate.score * 100 >= current.score * ratio_x100
         /\ (candidate.score - current.score) >= abs_delta

RotateScores == {-50, 0, 100, 125, 150, 200, 100000}
RotateRatios == {125, 200}
RotateDeltas == {0, 50}

RotatePicks == {BestPick(c, sd, sc) : c \in COINS, sd \in StrategySides, sc \in RotateScores}

RotateLog(kind, current, candidate, ratio_x100, abs_delta, result) ==
    [kind |-> kind, current |-> current, candidate |-> candidate,
     ratio_x100 |-> ratio_x100, abs_delta |-> abs_delta, result |-> result]

InitRotate ==
    /\ pc = "rotate"
    /\ cfg = [ENABLE_LIVE |-> FALSE, ENFORCE_POST_FUNDING_VALIDATION |-> FALSE,
              TEST_FORCE_ENTRY_ONCE |-> FALSE]
    /\ position = NoPosition
    /\ stateFile = NoFile
    /\ live_enabled = FALSE
    /\ last_seen_time = [c \in COINS |-> NoTime]
    /\ last_trade_ms = [c \in COINS |-> NoTime]
    /\ pending = [c \in COINS |-> NoPending]
    /\ force_entry = FALSE
    /\ force_gate = FALSE
    /\ ex = FlatExchange
    /\ legFailed = FALSE
    /\ \E current \in RotatePicks \cup {NoPick}, candidate \in RotatePicks,
          ratio_x100 \in RotateRatios, abs_delta \in RotateDeltas :
          last = RotateLog("inputs", current, candidate, ratio_x100, abs_delta, FALSE)

ShouldRotate ==
    /\ pc = "rotate"
    /\ last.kind = "inputs"
    /\ last' = [last EXCEPT !.kind = "should_rotate",
                            !.result = should_rotate(last.current, last.candidate,
                                                     last.ratio_x100, last.abs_delta)]
    /\ UNCHANGED <<pc, cfg, position, stateFile, live_enabled, last_seen_time, last_trade_ms,
                   pending, force_entry, force_gate, ex, legFailed>>

NextRotate == ShouldRotate

SpecRotate == InitRotate /\ [][NextRotate]_vars

----------------------------------------------------------------------------
(* The position state store (src/new-src/state.py) on its own: a process    *)
(* holding a position in memory saves it, is stopped while saving, or       *)
(* starts and loads whatever the file holds.                                *)

StatePositions ==
    {PositionState(c, "SHORT_PERP", o, 0, 0) : c \in COINS, o \in BOOLEAN}
       \cup {PositionState(CoinSeq[1], "LONG_PERP", TRUE, 1, 1)}

(* key sets of a position object in a file: the full set, the required set  *)
(* with or without size, one required key missing, none at all, and a key   *)
(* the dataclass does not know                                              *)
StateKeySets ==
    {DataclassKeys, RequiredKeys, RequiredKeys \cup {"size"}, {},
     RequiredKeys \cup {"entry_premium"}, DataclassKeys \ {"side"}}
       \cup {RequiredKeys \ {key} : key \in RequiredKeys}

StateFiles ==
    {StateFile(kind, {}, NoPosition) :
        kind \in {"missing", "unparsable", "array", "object_no_position", "null", "scalar"}}
       \cup {StateFile("pos", keys, pos) : keys \in StateKeySets, pos \in StatePositions}

StateIOOutcomes == IOOutcomes \cup {"fail_write"}

(* where a process that is stopped while in save_position was stopped *)
StopPoints == {"before_open", "after_open", "after_dump"}

StateLog(kind, io, before, saved, raised, logged, result, interrupted) ==
    [kind |-> kind, io |-> io, before |-> before, saved |-> saved, raised |-> raised,
     logged |-> logged, result |-> result, interrupted |-> interrupted]

InitState ==
    /\ pc = "state"
    /\ cfg = [ENABLE_LIVE |-> FALSE, ENFORCE_POST_FUNDING_VALIDATION |-> FALSE,
              TEST_FORCE_ENTRY_ONCE |-> FALSE]
    /\ position \in StatePositions \cup {NoPosition}
    /\ stateFile \in StateFiles
    /\ live_enabled = FALSE
    /\ last_seen_time = [c \in COINS |-> NoTime]
    /\ last_trade_ms = [c \in COINS |-> NoTime]
    /\ pending = [c \in COINS |-> NoPending]
    /\ force_entry = FALSE
    /\ force_gate = FALSE
    /\ ex = FlatExchange
    /\ legFailed = FALSE
    /\ last = StateLog("init", "", NoFile, NoPosition, FALSE, FALSE, NoPosition, FALSE)

StateUnchanged ==
    UNCHANGED <<cfg, live_enabled, last_seen_time, last_trade_ms, pending, force_entry,
                force_gate, ex, legFailed>>

(* DryRunExecutor._persist: save_position(self.position) runs to its end *)
SavePosition ==
    /\ pc = "state"
    /\ \E io \in StateIOOutcomes :
          LET r == save_position_result(position, stateFile, io)
          IN  /\ stateFile' = r.file
              /\ last' = StateLog("save", io, stateFile, position, r.raised, r.logged,
                                  NoPosition, FALSE)
    /\ UNCHANGED <<pc, position>>
    /\ StateUnchanged

(* the process is stopped while it is in save_position(self.position) *)
StoppedInSave ==
    /\ pc = "state"
    /\ \E at \in StopPoints :
          stateFile' = IF at = "before_open" THEN stateFile
                       ELSE IF at = "after_open" THEN save_open(stateFile, "ok").file
                       ELSE save_dump(position, "ok").file
    /\ pc' = "state_stopped"
    /\ position' = NoPosition
    /\ last' = StateLog("stopped", "", stateFile, position, FALSE, FALSE, NoPosition, TRUE)
    /\ StateUnchanged

(* a process starts: restored = load_position() (main.py 464-466) *)
LoadPosition ==
    /\ pc \in {"state", "state_stopped"}
    /\ LET r == load_position_result(stateFile)
       IN  /\ position' = r.position
           /\ last' = StateLog("load", "", IF pc = "state_stopped" THEN last.before ELSE stateFile,
                               IF pc = "state_stopped" THEN last.saved ELSE NoPosition,
                               r.raised, FALSE, r.position, pc = "state_stopped")
    /\ pc' = "state"
    /\ UNCHANGED stateFile
    /\ StateUnchanged

NextState == SavePosition \/ StoppedInSave \/ LoadPosition

SpecState == InitState /\ [][NextState]_vars

----------------------------------------------------------------------------
(* The startup sync of main() (main.py 464-502) on its own, with live       *)
(* trading enabled: the exchange reports up to two rows of any coin and     *)
(* signed size, over any of the persisted files.                            *)

SyncRows == {[coin |-> c, szi |-> z] : c \in COINS, z \in {-2, -1, 0, 1, 2}}

SyncLog(kind, rows, before, io) == [kind |-> kind, rows |-> rows, before |-> before, io |-> io]

InitSync ==
    /\ pc = "sync"
    /\ cfg = [ENABLE_LIVE |-> TRUE, ENFORCE_POST_FUNDING_VALIDATION |-> FALSE,
              TEST_FORCE_ENTRY_ONCE |-> FALSE]
    /\ position = NoPosition
    /\ stateFile \in InitFiles \cup {StateFile("null", {}, NoPosition),
                                     StateFile("pos", DataclassKeys,
                                               PositionState(CoinSeq[2], "LONG_PERP", FALSE, 1, 2))}
    /\ live_enabled = TRUE
    /\ last_seen_time = [c \in COINS |-> NoTime]
    /\ last_trade_ms = [c \in COINS |-> NoTime]
    /\ pending = [c \in COINS |-> NoPending]
    /\ force_entry = FALSE
    /\ force_gate = FALSE
    /\ ex = FlatExchange
    /\ legFailed = FALSE
    /\ \E rows \in {<<>>} \cup {<<r>> : r \in SyncRows}
                          \cup {<<r1, r2>> : r1 \in SyncRows, r2 \in SyncRows} :
          last = SyncLog("reported", rows, NoFile, "")

SyncState ==
    /\ pc = "sync"
    /\ last.kind = "reported"
    /\ \E io \in IOOutcomes :
          LET r == sync_state(load_position(stateFile), stateFile, last.rows, io)
          IN  /\ position' = r.position
              /\ stateFile' = r.stateFile
              /\ last' = SyncLog("synced", last.rows, stateFile, io)
    /\ UNCHANGED <<pc, cfg, live_enabled, last_seen_time, last_trade_ms, pending,
                   force_entry, force_gate, ex, legFailed>>

NextSync == SyncState

SpecSync == InitSync /\ [][NextSync]_vars

----------------------------------------------------------------------------
(* Market data fetch: fetch_latest_snapshot (main.py 104-179) over          *)
(* HyperliquidPublic.funding_history, and HyperliquidClient.post_info       *)
(* (hyperliquid_client.py 78-148).  The data source is an environment: an   *)
(* attempt ends in a transient network error, an HTTP status, another       *)
(* exception, or a response.  One step is one iteration of the retry loop.  *)

(* a field of a history row: a number, absent, or present and not numeric *)
FieldOk(v) == [s |-> "ok", v |-> v]
FieldMissing == [s |-> "missing", v |-> 0]
FieldBad == [s |-> "bad", v |-> 0]

HistoryRow(fundingRate, premium, time) ==
    [fundingRate |-> fundingRate, premium |-> premium, time |-> time]

(* safe_float: the number, or None (NoVal) *)
safe_float(x) == IF x.s = "ok" THEN x.v ELSE NoVal

(* int(x.get("time", 0)): 0 when the key is absent, raises when not numeric *)
row_time(row) ==
    IF row.time.s = "bad" THEN [raised |-> TRUE, v |-> 0]
    ELSE IF row.time.s = "missing" THEN [raised |-> FALSE, v |-> 0]
    ELSE [raised |-> FALSE, v |-> row.time.v]

(* parse_latest: None for an empty history, else the first row of greatest  *)
(* time; raises when a row's time is not numeric                            *)
parse_latest(history) ==
    IF history = <<>> THEN [raised |-> FALSE, found |-> FALSE, idx |-> 0]
    ELSE IF \E i \in 1..Len(history) : row_time(history[i]).raised
    THEN [raised |-> TRUE, found |-> FALSE, idx |-> 0]
    ELSE LET best == CHOOSE i \in 1..Len(history) :
                        /\ \A j \in 1..Len(history) : row_time(history[j]).v <= row_time(history[i]).v
                        /\ \A j \in 1..(i - 1) : row_time(history[j]).v < row_time(history[i]).v
         IN  [raised |-> FALSE, found |-> TRUE, idx |-> best]

NoSnapshot == Snapshot("", NoVal, NoVal, 0)

FetchReturn(snap_present, snap, raw_present) ==
    [returned |-> TRUE, exc |-> "", code |-> 0, snap_present |-> snap_present, snap |-> snap,
     raw_present |-> raw_present]

FetchRaise(exc, code) ==
    [returned |-> FALSE, exc |-> exc, code |-> code, snap_present |-> FALSE, snap |-> NoSnapshot,
     raw_present |-> FALSE]

(* the try block of fetch_latest_snapshot (main.py 119-141) on one answer   *)
(* of the data source                                                       *)
fetch_try(coin, src) ==
    IF src.kind = "transient" THEN FetchRaise("transient", 0)
    ELSE IF src.kind = "status" THEN FetchRaise("status", src.code)
    ELSE IF src.kind = "error" THEN FetchRaise("other", 0)
    ELSE LET latest == parse_latest(src.history)
         IN  IF latest.raised THEN FetchRaise("other", 0)
             ELSE IF ~latest.found THEN FetchReturn(FALSE, NoSnapshot, FALSE)
             ELSE LET row == src.history[latest.idx]
                      fund_raw == safe_float(row.fundingRate)
                      premium == safe_float(row.premium)
                      t_ms == row_time(row)
                  IN  IF t_ms.raised THEN FetchRaise("other", 0)
                      ELSE IF fund_raw = NoVal \/ premium = NoVal
                      THEN FetchReturn(FALSE, NoSnapshot, TRUE)
                      ELSE FetchReturn(TRUE, fetch_latest_snapshot(coin, t_ms.v, premium, fund_raw), TRUE)

(* is_retryable_http_status and HyperliquidClient._should_retry_status *)
is_retryable_http_status(code) == code = 429 \/ (500 <= code /\ code <= 599)

(* the state of one call: the loop counter, the calls made to the data      *)
(* source, the backoff sleeps taken, and what it returned                   *)
(* one iteration of the for loop of fetch_latest_snapshot on the answer src *)
(* of the data source, with the return after the loop (main.py 176-179)     *)
(* when it was the last                                                     *)
fetch_iteration(st, coin, src) ==
    LET r == fetch_try(coin, src)
        at == [st EXCEPT !.attempt = @ + 1, !.calls = @ + 1, !.src = src, !.slept = FALSE]
        again == [at EXCEPT !.sleeps = @ + 1, !.slept = TRUE,
                            !.done = (at.attempt >= st.max_retries)]
    IN  IF r.returned
        THEN [at EXCEPT !.done = TRUE, !.snap_present = r.snap_present, !.snap = r.snap,
                        !.raw_present = r.raw_present]
        ELSE IF r.exc = "transient" THEN again
        ELSE IF r.exc = "status" /\ is_retryable_http_status(r.code) THEN again
        ELSE [at EXCEPT !.done = TRUE]

(* one iteration of the for loop of post_info on the answer src, with the   *)
(* return after the loop (hyperliquid_client.py 147-148) when it was the    *)
(* last                                                                     *)
post_info_iteration(st, src) ==
    LET at == [st EXCEPT !.attempt = @ + 1, !.calls = @ + 1, !.src = src, !.slept = FALSE]
        again == [at EXCEPT !.sleeps = @ + 1, !.slept = TRUE,
                            !.done = (at.attempt >= st.max_retries)]
    IN  IF src.kind = "response"
        THEN IF src.code >= 400
             THEN IF is_retryable_http_status(src.code) THEN again
                  ELSE [at EXCEPT !.done = TRUE]
             ELSE IF src.body = "dict" THEN [at EXCEPT !.done = TRUE, !.data = TRUE]
             ELSE again
        ELSE again

FetchFields == {FieldOk(300), FieldMissing, FieldBad}
FetchTimes == {FieldOk(1), FieldOk(2), FieldMissing, FieldBad}
FetchRows == {HistoryRow(f, p, t) : f \in FetchFields, p \in FetchFields, t \in FetchTimes}
FetchStatuses == {400, 404, 429, 499, 500, 503, 599}

(* what HyperliquidPublic.funding_history does on one call *)
FetchSources ==
    {[kind |-> "history", code |-> 200, history |-> h, body |-> ""] :
        h \in {<<>>} \cup {<<r>> : r \in FetchRows}
                  \cup {<<r1, r2>> : r1 \in FetchRows,
                                     r2 \in {HistoryRow(FieldOk(300), FieldOk(300), t) : t \in FetchTimes}}}
       \cup {[kind |-> "status", code |-> c, history |-> <<>>, body |-> ""] : c \in FetchStatuses}
       \cup {[kind |-> kd, code |-> 0, history |-> <<>>, body |-> ""] : kd \in {"transient", "error"}}

(* what the POST of post_info does on one call *)
PostSources ==
    {[kind |-> "response", code |-> c, history |-> <<>>, body |-> b] :
        c \in FetchStatuses \cup {200}, b \in {"dict", "non_dict", "undecodable"}}
       \cup {[kind |-> kd, code |-> 0, history |-> <<>>, body |-> ""] : kd \in {"transient", "error"}}

InitFetch ==
    /\ pc = "fetch"
    /\ cfg = [ENABLE_LIVE |-> FALSE, ENFORCE_POST_FUNDING_VALIDATION |-> FALSE,
              TEST_FORCE_ENTRY_ONCE |-> FALSE]
    /\ position = NoPosition
    /\ stateFile = NoFile
    /\ live_enabled = FALSE
    /\ last_seen_time = [c \in COINS |-> NoTime]
    /\ last_trade_ms = [c \in COINS |-> NoTime]
    /\ pending = [c \in COINS |-> NoPending]
    /\ force_entry = FALSE
    /\ force_gate = FALSE
    /\ ex = FlatExchange
    /\ legFailed = FALSE
    /\ \E fn \in {"fetch_latest_snapshot", "post_info"}, n \in 1..3 :
          last = [fn |-> fn, max_retries |-> n, attempt |-> 0, calls |-> 0, sleeps |-> 0,
                  done |-> FALSE, raised |-> FALSE, snap_present |-> FALSE, snap |-> NoSnapshot,
                  raw_present |-> FALSE, data |-> FALSE,
                  src |-> [kind |-> "none", code |-> 0, history |-> <<>>, body |-> ""],
                  slept |-> FALSE]

FetchUnchanged ==
    UNCHANGED <<pc, cfg, position, stateFile, live_enabled, last_seen_time, last_trade_ms,
                pending, force_entry, force_gate, ex, legFailed>>

FetchAttempt ==
    /\ pc = "fetch"
    /\ last.fn = "fetch_latest_snapshot" /\ ~last.done /\ last.attempt < last.max_retries
    /\ \E src \in FetchSources : last' = fetch_iteration(last, CoinSeq[1], src)
    /\ FetchUnchanged

PostInfoAttempt ==
    /\ pc = "fetch"
    /\ last.fn = "post_info" /\ ~last.done /\ last.attempt < last.max_retries
    /\ \E src \in PostSources : last' = post_info_iteration(last, src)
    /\ FetchUnchanged

NextFetch == FetchAttempt \/ PostInfoAttempt

SpecFetch == InitFetch /\ [][NextFetch]_vars

----------------------------------------------------------------------------
(* Order sizing: the size computation of place_order and place_spot_order.  *)
(* Sizes and balances are in hundredths of a base unit, so a market has 0,  *)
(* 1 or 2 size decimals; notional_usd and mid are in whole USD.  A read of  *)
(* the position or balance before the order is a row with a value, an       *)
(* absent row, or (perp only) a query that raises.                          *)

RECURSIVE Pow10(_)
Pow10(n) == IF n = 0 THEN 1 ELSE 10 * Pow10(n - 1)

(* math.floor(sz * scale) / scale for a non-negative size in hundredths *)
floor_size(sz, sz_decimals) == (sz \div Pow10(2 - sz_decimals)) * Pow10(2 - sz_decimals)

(* math.floor((notional_usd / mid) * scale) / scale, in hundredths *)
notional_size(notional_usd, mid, sz_decimals) == ((notional_usd * Pow10(sz_decimals)) \div mid) * Pow10(2 - sz_decimals)

SizeRefused(why) == [raised |-> TRUE, sent |-> FALSE, size |-> 0, why |-> why]

SizeSubmitted(sz) == [raised |-> FALSE, sent |-> TRUE, size |-> sz, why |-> "sent"]

(* place_order up to the exchange call, with the reduce-only override left out *)
order_size_by_notional(notional_usd, mid, sz_decimals, reduce_only, before_pos) ==
    IF mid <= 0 THEN SizeRefused("mid")
    ELSE IF notional_size(notional_usd, mid, sz_decimals) <= 0 THEN SizeRefused("size")
    ELSE IF before_pos.kind = "raise" THEN SizeRefused("query")
    ELSE SizeSubmitted(notional_size(notional_usd, mid, sz_decimals))

(* place_order up to the exchange call: the size it submits, or the raise *)
order_size(notional_usd, mid, sz_decimals, reduce_only, before_pos) ==
    LET before_szi == IF before_pos.kind = "row" THEN before_pos.val ELSE 0
        sz == floor_size(Abs(before_szi), sz_decimals)
    IN  IF mid <= 0 THEN SizeRefused("mid")
        ELSE IF notional_size(notional_usd, mid, sz_decimals) <= 0 THEN SizeRefused("size")
        ELSE IF before_pos.kind = "raise" THEN SizeRefused("query")
        ELSE IF reduce_only
             THEN IF before_szi = 0 THEN SizeRefused("no_position")
                  ELSE IF sz <= 0 THEN SizeRefused("close_size")
                  ELSE SizeSubmitted(sz)
             ELSE SizeSubmitted(notional_size(notional_usd, mid, sz_decimals))

(* place_spot_order up to the exchange call *)
spot_order_size(side, notional_usd, mid, sz_decimals, use_available_base_size_for_sell, before_bal) ==
    LET is_buy == side = "BUY"
        sz == floor_size(before_bal.val, sz_decimals)
    IN  IF mid <= 0 THEN SizeRefused("mid")
        ELSE IF notional_size(notional_usd, mid, sz_decimals) <= 0 THEN SizeRefused("size")
        ELSE IF ~is_buy /\ use_available_base_size_for_sell /\ before_bal.kind = "row" /\ before_bal.val > 0
             THEN IF sz <= 0 THEN SizeRefused("sell_size") ELSE SizeSubmitted(sz)
             ELSE SizeSubmitted(notional_size(notional_usd, mid, sz_decimals))

InitSize ==
    /\ pc = "size"
    /\ cfg = [ENABLE_LIVE |-> FALSE, ENFORCE_POST_FUNDING_VALIDATION |-> FALSE,
              TEST_FORCE_ENTRY_ONCE |-> FALSE]
    /\ position = NoPosition
    /\ stateFile = NoFile
    /\ live_enabled = FALSE
    /\ last_seen_time = [c \in COINS |-> NoTime]
    /\ last_trade_ms = [c \in COINS |-> NoTime]
    /\ pending = [c \in COINS |-> NoPending]
    /\ force_entry = FALSE
    /\ force_gate = FALSE
    /\ ex = FlatExchange
    /\ legFailed = FALSE
    /\ \E fn \in {"place_order", "place_spot_order"}, side \in {"BUY", "SELL"},
          n \in {0, 1, 10, 25}, mid \in {0, 4, 50, 3000}, d \in {0, 1, 2}, flag \in BOOLEAN,
          k \in {"row", "absent", "raise"}, v \in {-250, -137, -5, 0, 5, 137, 250} :
          /\ k # "row" => v = 0
          /\ fn = "place_spot_order" => (k # "raise" /\ v >= 0)
          /\ last = [fn |-> fn, side |-> side, notional_usd |-> n, mid |-> mid, sz_decimals |-> d,
                      reduce_only |-> (fn = "place_order" /\ flag),
                      use_avail |-> (fn = "place_spot_order" /\ flag),
                      before |-> [kind |-> k, val |-> v], done |-> FALSE,
                      result |-> SizeRefused("")]

PlaceOrderSize ==
    /\ pc = "size"
    /\ last.fn = "place_order" /\ ~last.done
    /\ last' = [last EXCEPT !.done = TRUE,
                            !.result = order_size(last.notional_usd, last.mid, last.sz_decimals,
                                                  last.reduce_only, last.before)]
    /\ FetchUnchanged

PlaceSpotOrderSize ==
    /\ pc = "size"
    /\ last.fn = "place_spot_order" /\ ~last.done
    /\ last' = [last EXCEPT !.done = TRUE,
                            !.result = spot_order_size(last.side, last.notional_usd, last.mid,
                                                       last.sz_decimals, last.use_avail, last.before)]
    /\ FetchUnchanged

NextSize == PlaceOrderSize \/ PlaceSpotOrderSize

SpecSize == InitSize /\ [][NextSize]_vars

----------------------------------------------------------------------------
(* Properties *)

Sides == {"SHORT_PERP", "LONG_PERP"}

IsStep == last.kind = "step"
IsExec == last.kind = "execute"

HasStatus(st) == \E i \in 1..Len(last.statuses) : last.statuses[i] = st

VerifiedExec(kind) ==
    \E j \in 1..Len(last.execs) :
        /\ last.execs[j].kind = kind
        /\ ~last.execs[j].raised
        /\ last.execs[j].ok
        /\ last.execs[j].verified

(* C1: in every reachable state of the loop there is one executor position; *)
(* on_decision(OPEN) called while current_side() is non-null returns        *)
(* OPEN_SKIPPED and leaves the held position and the state file as they     *)
(* are, and the loop evaluates decide_open only when current_side() is null *)
C1_SingleOpenPosition ==
    /\ \A c \in COINS, sd \in Sides \cup {""}, t \in 0..MaxTime :
          current_side(position) # "" =>
             LET r == on_decision(position, stateFile, Snapshot(c, 0, 0, t),
                                  StrategyDecision("OPEN", sd, 0, ""), "ok")
             IN  /\ r.status = "OPEN_SKIPPED | already in position"
                 /\ r.position = position
                 /\ r.stateFile = stateFile
    /\ (IsStep /\ last.evalOpen) => last.heldAtEval = ""

(* C1 witness: the loop evaluated decide_open while flat, opened, and now   *)
(* holds a position                                                         *)
C1_Witness ==
    IsStep /\ last.evalOpen /\ HasStatus("OPENED") /\ current_side(position) # ""

(* C2: in a process started with live trading enabled, a step closes the    *)
(* local position only if execute(CLOSE) returned ok and verified in it     *)
C2_CloseOnlyAfterVerifiedClose ==
    (cfg.ENABLE_LIVE /\ IsStep /\ HasStatus("CLOSED")) => VerifiedExec("CLOSE")

(* C3: in a process started with live trading enabled, a step opens (and    *)
(* persists) the local position only if execute(OPEN) returned ok and       *)
(* verified in it                                                           *)
C3_OpenOnlyAfterVerifiedOpen ==
    (cfg.ENABLE_LIVE /\ IsStep /\ HasStatus("OPENED")) => VerifiedExec("OPEN")

(* the re-query of a call observed a change in the intended direction *)
ObservedChange(call) ==
    /\ call.before # NoRead /\ call.after # NoRead
    /\ call.leg = "spot" => (call.before # NoBal /\ call.after # NoBal)
    /\ IF call.leg = "perp" /\ call.reduce_only
       THEN Abs(call.after) < Abs(call.before)
       ELSE IF call.side = "BUY" THEN call.after > call.before
                                 ELSE call.after < call.before

(* C4: an order result of place_order / place_spot_order has ok = true only *)
(* if the re-query after the order observed a position / balance change in  *)
(* the intended direction                                                   *)
C4_OkOnlyIfObservedChange ==
    IsExec =>
       \A i \in 1..Len(last.calls) :
          (~last.calls[i].raised /\ last.calls[i].res.ok) => ObservedChange(last.calls[i])

(* C5: once a leg of a live hedge failed, was unverified or raised,         *)
(* live_enabled is false, so that no further live order is submitted        *)
C5_LegFailureDisablesLive ==
    legFailed => ~live_enabled

IsOpenShortExec ==
    IsExec /\ ~last.safe_mode /\ last.plan.kind = "OPEN" /\ last.plan.side \in ShortSides

IsCloseShortExec ==
    IsExec /\ ~last.safe_mode /\ last.plan.kind = "CLOSE" /\ last.plan.side \in ShortSides

IsSpot(call, side) == call.leg = "spot" /\ call.side = side

IsPerp(call, side) == call.leg = "perp" /\ call.side = side

Returned(call) == ~call.raised

PerpOpenFailedAfterSpot ==
    /\ IsOpenShortExec
    /\ Len(last.calls) >= 2
    /\ Returned(last.calls[1]) /\ last.calls[1].res.ok
    /\ Returned(last.calls[2])
    /\ (~last.calls[2].res.ok \/ ~last.calls[2].res.verified)

OpenFailureClass(r) ==
    IF Len(r.calls) = 1 /\ ~r.raised /\ ~r.calls[1].res.ok
    THEN "spot_leg_failed"
    ELSE IF Len(r.calls) = 3 /\ ~r.calls[3].raised /\ r.calls[3].res.ok
    THEN "perp_leg_failed_rolled_back"
    ELSE IF Len(r.calls) = 3
    THEN "rollback_failed"
    ELSE "none"

(* C8: the failure reason of execute(OPEN) takes pairwise distinct values   *)
(* for: spot leg failed; perp leg failed and the sell-back succeeded; perp  *)
(* leg failed and the sell-back failed                                      *)
C8_DistinctFailureReasons ==
    \A c \in COINS :
       LET rs == execute(preview(Snapshot(c, 0, 0, 0), "OPEN", "SHORT_PERP", ""), FALSE, ex)
       IN  \A r1, r2 \in rs :
              (/\ OpenFailureClass(r1) # "none"
               /\ OpenFailureClass(r2) # "none"
               /\ OpenFailureClass(r1) # OpenFailureClass(r2))
              => r1.res.verify_reason # r2.res.verify_reason

(* C9: every execute(OPEN) whose spot BUY was submitted and bought ends, by  *)
(* return or by exception, with both legs verified or with a spot sell-back *)
(* submitted                                                                *)
C9_OpenReachesTerminalState ==
    (/\ IsOpenShortExec
     /\ Len(last.calls) >= 1
     /\ last.calls[1].sent /\ Returned(last.calls[1]) /\ last.calls[1].res.ok) =>
       \/ (~last.raised /\ last.res.ok /\ last.res.verified /\ last.calls[1].res.verified)
       \/ \E i \in 1..Len(last.calls) : IsSpot(last.calls[i], "SELL")

(* C10: in execute(CLOSE, short-perp side) the first call is the reduce-only *)
(* perp BUY; the spot SELL is made only after the perp leg returned ok and   *)
(* verified; otherwise no spot order is made and the perp result is returned *)
C10_PerpCloseBeforeSpotSell ==
    IsCloseShortExec =>
       /\ Len(last.calls) >= 1
       /\ IsPerp(last.calls[1], "BUY")
       /\ last.calls[1].reduce_only
       /\ last.calls[1].coin = last.plan.coin
       /\ \A i \in 1..Len(last.calls) :
             last.calls[i].leg = "spot" =>
                /\ i = 2
                /\ IsSpot(last.calls[i], "SELL")
                /\ Returned(last.calls[1])
                /\ last.calls[1].res.ok /\ last.calls[1].res.verified
       /\ (Returned(last.calls[1]) /\ (~last.calls[1].res.ok \/ ~last.calls[1].res.verified)) =>
             /\ Len(last.calls) = 1
             /\ ~last.raised
             /\ last.res = last.calls[1].res

(* C10 witness: the perp leg of a CLOSE returned not ok although the        *)
(* position was reduced, and no spot order followed                         *)
C10_Witness ==
    /\ IsCloseShortExec
    /\ Len(last.calls) = 1
    /\ Returned(last.calls[1])
    /\ ~last.calls[1].res.ok /\ last.calls[1].res.verified


ExecsOf(log) == {log.execs[j] : j \in 1..Len(log.execs)}

SpotCloseFailedExecs(log) ==
    {x \in ExecsOf(log) : x.kind = "CLOSE" /\ ~x.raised
                          /\ x.reason = "spot_close_failed_after_perp_close"}

(* a CLOSE whose perp leg verified and whose spot SELL returned not ok came *)
(* back as ok=false after exactly the two calls, and left live trading off  *)
SpotCloseFailureSurfaced ==
    (IsStep /\ SpotCloseFailedExecs(last) # {}) =>
       /\ \A x \in SpotCloseFailedExecs(last) : ~x.ok /\ ~x.verified /\ x.ncalls = 2
       /\ last.execs[Len(last.execs)] \in SpotCloseFailedExecs(last)
       /\ ~live_enabled

(* with live trading off, a step calls execute for nothing and leaves the   *)
(* exchange and the switch as they are                                      *)
NoExecuteWhileLiveOff ==
    ~live_enabled => (~live_enabled' /\ ex' = ex /\ (last'.kind = "step" => last'.execs = <<>>))

(* C11: when the perp leg of a CLOSE verified and the spot SELL returned    *)
(* not ok, execute returns ok=false with reason                             *)
(* spot_close_failed_after_perp_close after those two calls and no more,    *)
(* and from then on the loop submits no CLOSE (or any other order) again    *)
C11_SpotCloseFailureNotRetried ==
    [][SpotCloseFailureSurfaced' /\ NoExecuteWhileLiveOff]_vars

(* C11 witness: a step whose live CLOSE came back with the reason           *)
(* spot_close_failed_after_perp_close while the position stays open locally *)
C11_Witness ==
    /\ IsStep
    /\ SpotCloseFailedExecs(last) # {}
    /\ last.route = "close_live_failed"
    /\ current_side(position) # ""


(* execute on a long-perp OPEN plan places no order and returns the refusal *)
LongOpenRefused ==
    \A c \in COINS :
       execute(preview(Snapshot(c, 0, 0, 0), "OPEN", "LONG_PERP", ""), FALSE, ex)
          = {ExecRet(FALSE,
                     Result("exec", FALSE, FALSE, "unsupported_long_perp_short_spot_in_v1"),
                     <<>>, ex)}

(* no live step hands a long-perp OPEN to execute or to the executor *)
NoLiveLongOpen ==
    IsStep =>
       /\ \A x \in ExecsOf(last) : ~(x.kind = "OPEN" /\ x.side = "LONG_PERP")
       /\ (live_enabled /\ HasStatus("OPENED")) => position.side # "LONG_PERP"

(* a step that held on the unsupported branch was a live step that called   *)
(* nothing and changed neither the position, the state file, the exchange   *)
(* nor the live switch                                                      *)
UnsupportedBranchHolds ==
    (last'.kind = "step" /\ last'.route = "hold_unsupported_branch") =>
       /\ live_enabled /\ live_enabled'
       /\ last'.execs = <<>> /\ last'.statuses = <<>>
       /\ position' = position /\ stateFile' = stateFile /\ ex' = ex

SafeModeExecuteInert ==
    \A plan \in Plans : execute(plan, TRUE, ex) = {ExecRet(FALSE, NoResult, <<>>, ex)}

(* a process started without ENABLE_LIVE never has live trading on, never   *)
(* calls execute and never moves the exchange                               *)
DryRunPlacesNoOrder ==
    ~cfg.ENABLE_LIVE =>
       /\ ~live_enabled
       /\ ex = FlatExchange
       /\ IsStep => last.execs = <<>>

(* C13: with safe_mode on (ENABLE_LIVE not set) no preview or execute call  *)
(* reaches an order-placement method of the trade client: execute returns   *)
(* None with no call, and the loop calls execute only with live_enabled on  *)
C13_SafeModePlacesNoOrder ==
    [][SafeModeExecuteInert' /\ DryRunPlacesNoOrder' /\ NoExecuteWhileLiveOff]_vars

(* C13 witness: a dry-run step went through preview and committed an OPEN *)
C13_Witness ==
    ~cfg.ENABLE_LIVE /\ IsStep /\ HasStatus("OPENED") /\ last.execs = <<>>


(* the values one iteration leaves behind, read by the next iteration *)
NextIteration(m, coin) == [m EXCEPT !.log = Log0("step", coin)]

(* the iteration did nothing: no execute call, no executor decision, and    *)
(* the position, the state file, the exchange and the live switch are those *)
(* of the iteration before                                                  *)
NothingActedOn(before, after) ==
    /\ after.log.execs = <<>>
    /\ after.log.statuses = <<>>
    /\ after.position = before.position
    /\ after.stateFile = before.stateFile
    /\ after.ex = before.ex
    /\ after.live_enabled = before.live_enabled

(* C14: for any sequence of polled snapshots, a snapshot of a coin whose    *)
(* time equals one already processed for that coin produces no order and no *)
(* state change.  Stated for a dry-run process right after startup and the  *)
(* sequences (c, t1), (c, t2), (c, t1) with the same row at t1 both times   *)
C14_ProcessedSnapshotNotActedOnAgain ==
    (pc = "loop" /\ last.kind = "startup" /\ ~cfg.ENABLE_LIVE) =>
       \A c \in COINS, t1, t2 \in 0..MaxTime, p1, p2 \in PremVals, f1, f2 \in FundRawVals :
          t1 # t2 =>
             \A m1 \in process_snapshot(Locals(c), fetch_latest_snapshot(c, t1, p1, f1), "ok") :
             \A m2 \in process_snapshot(NextIteration(m1, c),
                                        fetch_latest_snapshot(c, t2, p2, f2), "ok") :
             \A m3 \in process_snapshot(NextIteration(m2, c),
                                        fetch_latest_snapshot(c, t1, p1, f1), "ok") :
                NothingActedOn(m2, m3)


(* the time of the snapshot a step processed, for a step that was not       *)
(* dropped as a duplicate                                                   *)
SnapTimeOfStep == last_seen_time'[last'.coin]

(* C15: after a leg-pair was executed for coin c at snapshot time t, no     *)
(* OPEN or CLOSE order is submitted for c, on any path of the loop, at a    *)
(* snapshot time t2 with t2 - t < ENTRY_COOLDOWN_SEC * 1000                 *)
C15_CooldownBlocksOrders ==
    [][(/\ last'.kind = "step"
        /\ last'.execs # <<>>
        /\ last_trade_ms[last'.coin] # NoTime)
       => SnapTimeOfStep - last_trade_ms[last'.coin] >= COOLDOWN_MS]_vars


StepCoin == last'.coin

ProcessedStep == last'.kind = "step" /\ ~last'.dup

OpenedInStep == \E i \in 1..Len(last'.statuses) : last'.statuses[i] = "OPENED"

(* the smallest multiple of the interval strictly greater than t *)
NextBoundary(t, interval) ==
    CHOOSE b \in (t + 1)..(t + interval) : b % interval = 0

ValidationDue(coin, t) ==
    /\ pending[coin].present
    /\ t >= pending[coin].next_funding_ms + POST_FUNDING_VALIDATE_DELAY_MS

(* an OPENED arms the validation of the snapshot's coin for the next        *)
(* funding boundary                                                         *)
OpenArmsValidation ==
    (ProcessedStep /\ OpenedInStep) =>
       /\ pending'[StepCoin].present
       /\ pending'[StepCoin].opened_at_ms = SnapTimeOfStep
       /\ pending'[StepCoin].next_funding_ms = NextBoundary(SnapTimeOfStep, FUNDING_INTERVAL_MS)

(* the armed validation is evaluated at the first processed snapshot of the *)
(* coin at or after the boundary plus the delay, and not before             *)
ValidationEvaluatedWhenDue ==
    ProcessedStep => (last'.validation # "none" <=> ValidationDue(StepCoin, SnapTimeOfStep))

(* an evaluated validation is gone after the step, unless the step opened   *)
(* again and armed a new one                                                *)
ValidationEvaluatedOnce ==
    (ProcessedStep /\ last'.validation # "none") =>
       \/ pending'[StepCoin] = NoPending
       \/ OpenedInStep /\ pending'[StepCoin].opened_at_ms = SnapTimeOfStep

(* C16: an OPENED for coin c at snapshot time t arms a pending validation   *)
(* for c whose next_funding_ms is the smallest multiple of the funding      *)
(* interval strictly greater than t; it is evaluated at the first processed *)
(* snapshot of c with time >= next_funding_ms + delay, and at most once:    *)
(* the pending entry is removed whether the check passes or fails           *)
C16_ValidationArmedAndEvaluatedOnce ==
    [][OpenArmsValidation /\ ValidationEvaluatedWhenDue /\ ValidationEvaluatedOnce]_vars


(* the validation block alone, applied to the snapshots for which the       *)
(* pending check of the coin is due and finds the side not receiving, with  *)
(* enforcement off: a warning and nothing else                              *)
WarnOnlyLeavesStateAlone ==
    (pc = "loop" /\ ~cfg.ENFORCE_POST_FUNDING_VALIDATION) =>
       \A c \in COINS, t \in 0..MaxTime, p \in PremVals, f \in FundRawVals :
          LET snap == fetch_latest_snapshot(c, t, p, f)
          IN  (/\ ValidationDue(c, t)
               /\ ~side_expected_receive(pending[c].side, snap.fundingRate))
              => \A v \in post_funding_validation(Locals(c), snap, "ok") :
                    /\ ~v.abort
                    /\ v.m.log.validation = "warn"
                    /\ NothingActedOn(Locals(c), v.m)

(* with enforcement on, the step of a failed validation ends flat and with  *)
(* live trading off                                                         *)
EnforcedValidationClosesAndDisables ==
    (ProcessedStep /\ last'.validation = "enforced") =>
       current_side(position') = "" /\ ~live_enabled'

LiveStaysOff == ~live_enabled => ~live_enabled'

(* C17: a due post-funding validation that finds the held side is not the   *)
(* receiving side leaves position and live_enabled unchanged when           *)
(* enforcement is off; when it is on, after that step the position is       *)
(* closed and live_enabled is false for the rest of the process             *)
C17_ValidationMismatchPolicy ==
    [][WarnOnlyLeavesStateAlone' /\ EnforcedValidationClosesAndDisables /\ LiveStaysOff]_vars


(* the decisions the FLAT branch can be handed: an OPEN of either side, or  *)
(* a below-threshold HOLD that the test-force switch may turn into an OPEN  *)
FlatDecisions ==
    {StrategyDecision("OPEN", sd, 0, "entry") : sd \in Sides}
    \cup {StrategyDecision("HOLD", "", 0, r) :
             r \in {"short_carry_but_below_entry_thresholds",
                    "long_carry_but_below_entry_thresholds"}}

ReceivesFunding(side, rate) ==
    \/ side = "SHORT_PERP" /\ rate > 0
    \/ side = "LONG_PERP" /\ rate < 0

(* what the FLAT branch did with an OPEN respects the funding sign *)
OpenRespectsFundingSign(snap, m) ==
    /\ \A x \in ExecsOf(m.log) : x.kind = "OPEN" /\ ReceivesFunding(x.side, snap.fundingRate)
    /\ (\E i \in 1..Len(m.log.statuses) : m.log.statuses[i] = "OPENED")
          => ReceivesFunding(m.position.side, snap.fundingRate)

(* C18: every OPEN that reaches preview/execute or on_decision passed the   *)
(* direction precheck on the same snapshot (short-perp only if fundingRate  *)
(* > 0, long-perp only if fundingRate < 0); an OPEN decision whose side is  *)
(* not the receiver ends in HOLD with no order and no state change          *)
C18_DirectionPrecheck ==
    (pc = "loop" /\ current_side(position) = "") =>
       \A c \in COINS, t \in SnapshotTimes, p \in PremVals, f \in FundRawVals, d \in FlatDecisions :
          LET snap == fetch_latest_snapshot(c, t, p, f)
          IN  \A m \in flat_decided(Locals(c), snap, d, "ok") :
                 /\ OpenRespectsFundingSign(snap, m)
                 /\ (d.action = "OPEN" /\ ~ReceivesFunding(d.side, snap.fundingRate))
                       => (m.log.route = "hold_precheck" /\ NothingActedOn(Locals(c), m))

(* C18 witness: from a flat live state, a short-perp OPEN on a snapshot     *)
(* with negative funding is held by the precheck, and one with positive     *)
(* funding goes on to execute                                               *)
C18_Witness ==
    /\ pc = "loop" /\ current_side(position) = "" /\ live_enabled
    /\ \E c \in COINS, t \in SnapshotTimes, p \in PremVals, f \in FundRawVals :
          LET snap == fetch_latest_snapshot(c, t, p, f)
              d == StrategyDecision("OPEN", "SHORT_PERP", 0, "entry")
          IN  /\ snap.fundingRate < 0
              /\ \E m \in flat_decided(Locals(c), snap, d, "ok") : m.log.route = "hold_precheck"
    /\ \E c \in COINS, t \in SnapshotTimes, p \in PremVals, f \in FundRawVals :
          LET snap == fetch_latest_snapshot(c, t, p, f)
              d == StrategyDecision("OPEN", "SHORT_PERP", 0, "entry")
          IN  /\ snap.fundingRate > 0
              /\ \E m \in flat_decided(Locals(c), snap, d, "ok") : m.log.execs # <<>>


(* the gate as main.py computes it from funding, notional, horizon, the two *)
(* fee rates and twice the multiplier                                       *)
GateOf(funding, notional, horizon, fee_open, fee_close, multiple_x2) ==
    LET g == calc_expected_funding_and_fees(funding, notional, horizon, fee_open + fee_close)
    IN  funding_covers_fees(g.expected_funding_usd, g.est_fees_usd, multiple_x2)

(* |funding| * notional * horizon >= multiplier * notional * (fee_open +    *)
(* fee_close), both sides doubled                                           *)
GateFormula(funding, notional, horizon, fee_open, fee_close, multiple_x2) ==
    2 * Abs(funding) * notional * horizon >= multiple_x2 * notional * (fee_open + fee_close)

GateMatchesFormula ==
    \A funding \in {-500, -75, -20, 0, 20, 75, 500}, notional \in {100, 1000},
       horizon \in {8, 24}, fee_open \in {0, 450}, fee_close \in {0, 450},
       multiple_x2 \in {2, 3, 4} :
          GateOf(funding, notional, horizon, fee_open, fee_close, multiple_x2)
             <=> GateFormula(funding, notional, horizon, fee_open, fee_close, multiple_x2)

(* notional 1000, horizon 24, fees 0.00045 each, multiplier 1.5: funding    *)
(* 0.00002 gives 0.48 < 1.35, funding 0.0005 gives 12.0 >= 1.35             *)
GateExamples ==
    /\ ~GateOf(20, 1000, 24, 450, 450, 3)
    /\ calc_expected_funding_and_fees(20, 1000, 24, 900).expected_funding_usd = 480000
    /\ 3 * calc_expected_funding_and_fees(20, 1000, 24, 900).est_fees_usd = 2 * 1350000
    /\ GateOf(500, 1000, 24, 450, 450, 3)
    /\ calc_expected_funding_and_fees(500, 1000, 24, 900).expected_funding_usd = 12000000

(* the gate under the configured values, from the formula *)
ConfiguredGateHolds(funding) ==
    GateFormula(funding, BASE_NOTIONAL_X_USD, FUNDING_HORIZON_HOURS, FEE_RATE_OPEN,
                FEE_RATE_CLOSE, FUNDING_FEE_MULTIPLE_X2)

(* C19: the economic gate passes iff |funding| * notional * horizon_hours   *)
(* >= multiplier * notional * (fee_open + fee_close); it fails for funding  *)
(* 0.00002 and passes for 0.0005 at notional 1000, horizon 24, fees 0.00045 *)
(* and multiplier 1.5; with the test-force flag off, no OPEN is executed or *)
(* committed on a snapshot for which the gate fails                         *)
C19_EconomicGate ==
    /\ GateMatchesFormula
    /\ GateExamples
    /\ (pc = "loop" /\ current_side(position) = "" /\ ~cfg.TEST_FORCE_ENTRY_ONCE) =>
          \A c \in COINS, t \in SnapshotTimes, p \in PremVals, f \in FundRawVals, d \in FlatDecisions :
             LET snap == fetch_latest_snapshot(c, t, p, f)
             IN  ~ConfiguredGateHolds(snap.fundingRate) =>
                    \A m \in flat_decided(Locals(c), snap, d, "ok") :
                       /\ NothingActedOn(Locals(c), m)
                       /\ m.log.route \in {"hold_flat", "hold_precheck", "hold_gate"}

(* C19 witness: a live step whose OPEN decision passed the precheck and was *)
(* held by the gate                                                         *)
C19_Witness ==
    /\ IsStep /\ last.route = "hold_gate"
    /\ cfg.ENABLE_LIVE /\ live_enabled /\ ~cfg.TEST_FORCE_ENTRY_ONCE
    /\ last.execs = <<>> /\ last.statuses = <<>>


BothPresent(s) == s.premium # NoVal /\ s.fundingRate # NoVal

BothPositive(s) == BothPresent(s) /\ s.premium > 0 /\ s.fundingRate > 0

BothNegative(s) == BothPresent(s) /\ s.premium < 0 /\ s.fundingRate < 0

MeetsEntryThresholds(self, s) ==
    Abs(s.premium) >= self.prem_entry /\ Abs(s.fundingRate) >= self.fund_entry

(* C20: decide_open returns OPEN iff premium and funding are both present,  *)
(* share a strict sign and both magnitudes are >= their entry thresholds;   *)
(* the side is SHORT_PERP_LONG_SPOT only when both are positive and         *)
(* LONG_PERP_SHORT_SPOT only when both are negative; the score is the sum   *)
(* of the two magnitudes (premium + funding on the short side)              *)
C20_DecideOpen ==
    last.kind = "decide_open" =>
       LET s == last.snap
           d == last.d
       IN  /\ d.action = "OPEN" <=>
                 ((BothPositive(s) \/ BothNegative(s)) /\ MeetsEntryThresholds(last.strat, s))
           /\ d.action \in {"OPEN", "HOLD"}
           /\ d.side = "SHORT_PERP_LONG_SPOT" => BothPositive(s)
           /\ d.side = "LONG_PERP_SHORT_SPOT" => BothNegative(s)
           /\ d.action = "OPEN" =>
                 /\ d.side \in {"SHORT_PERP_LONG_SPOT", "LONG_PERP_SHORT_SPOT"}
                 /\ d.score = Abs(s.premium) + Abs(s.fundingRate)
                 /\ d.side = "SHORT_PERP_LONG_SPOT" => d.score = s.premium + s.fundingRate
           /\ d.action = "HOLD" => d.side = ""

(* C20 witness: decide_open opened the short side at exactly the entry      *)
(* thresholds                                                               *)
C20_Witness ==
    /\ last.kind = "decide_open"
    /\ last.strat = strat
    /\ last.snap.premium = PREM_ENTRY /\ last.snap.fundingRate = FUND_ENTRY
    /\ last.d.action = "OPEN" /\ last.d.side = "SHORT_PERP_LONG_SPOT"
    /\ last.d.score = PREM_ENTRY + FUND_ENTRY

OppositeStrictSigns(s) ==
    /\ BothPresent(s)
    /\ \/ s.premium > 0 /\ s.fundingRate < 0
       \/ s.premium < 0 /\ s.fundingRate > 0

(* C21: for every snapshot whose premium and funding have opposite strict   *)
(* signs, at any magnitude, decide_open returns HOLD with no side, score 0  *)
(* and reason sign_mismatch_not_a_carry                                     *)
C21_SignMismatchHolds ==
    (last.kind = "decide_open" /\ OppositeStrictSigns(last.snap)) =>
       last.d = StrategyDecision("HOLD", "", 0, "sign_mismatch_not_a_carry")

(* C21 witness: decide_open held a snapshot whose premium is far above the  *)
(* entry threshold and whose funding is as far below its negative           *)
C21_Witness ==
    /\ last.kind = "decide_open"
    /\ last.snap.premium # NoVal /\ last.snap.fundingRate # NoVal
    /\ last.snap.premium >= last.strat.prem_entry + 100000
    /\ last.snap.fundingRate <= -(last.strat.fund_entry + 100000)
    /\ last.d.action = "HOLD" /\ last.d.reason = "sign_mismatch_not_a_carry"

SignValidFor(s, side) ==
    IF side = "SHORT_PERP_LONG_SPOT" THEN BothPositive(s) ELSE BothNegative(s)

(* C22: should_close returns CLOSE with score 0 for the current side        *)
(* whenever premium and funding are present and not sign-valid for it       *)
(* (short: not both > 0; long: not both < 0), at every magnitude            *)
C22_SignBreakCloses ==
    (last.kind = "should_close" /\ BothPresent(last.snap)
        /\ ~SignValidFor(last.snap, last.side)) =>
       /\ last.d.action = "CLOSE"
       /\ last.d.score = 0
       /\ last.d.side = last.side

(* C22 witness: should_close closed a short position on a snapshot whose    *)
(* magnitudes both exceed the entry thresholds while the funding is negative *)
C22_Witness ==
    /\ last.kind = "should_close" /\ last.side = "SHORT_PERP_LONG_SPOT"
    /\ BothPresent(last.snap)
    /\ last.snap.premium > last.strat.prem_entry
    /\ last.snap.fundingRate < -last.strat.fund_entry
    /\ last.d.action = "CLOSE" /\ last.d.score = 0

StrictlyBetween(x, lo, hi) == lo < Abs(x) /\ Abs(x) < hi

InHysteresisBand(self, s, side) ==
    /\ self.prem_exit < self.prem_entry /\ self.fund_exit < self.fund_entry
    /\ SignValidFor(s, side)
    /\ StrictlyBetween(s.premium, self.prem_exit, self.prem_entry)
    /\ StrictlyBetween(s.fundingRate, self.fund_exit, self.fund_entry)

(* C23: with exit thresholds below the entry thresholds, a snapshot that is *)
(* sign-valid for the side held and has both magnitudes strictly between    *)
(* the exit and the entry thresholds makes should_close return HOLD and     *)
(* decide_open return HOLD                                                  *)
C23_Hysteresis ==
    (last.kind = "should_close" /\ InHysteresisBand(last.strat, last.snap, last.side)) =>
       /\ last.d.action = "HOLD"
       /\ decide_open(last.strat, last.snap).action = "HOLD"

(* C23 witness: should_close held a long position inside the band *)
C23_Witness ==
    /\ last.kind = "should_close" /\ last.side = "LONG_PERP_SHORT_SPOT"
    /\ InHysteresisBand(last.strat, last.snap, last.side)
    /\ last.d.action = "HOLD" /\ last.d.reason = "long_carry_ok_hold"

SamePick(a, b) == a.coin = b.coin /\ a.side = b.side

(* C24: should_rotate with no current pick is True for every candidate,     *)
(* ratio and abs_delta; with a current pick X and a candidate of the same   *)
(* coin and side it is False for every pair of scores                       *)
C24_RotateNoneAndSame ==
    last.kind = "should_rotate" =>
       /\ ~last.current.present => last.result = TRUE
       /\ (last.current.present /\ SamePick(last.current, last.candidate)) => last.result = FALSE

(* C24 witness: a candidate of the same coin and side was refused although  *)
(* the current score is <= 0 and the candidate's is far larger              *)
C24_Witness ==
    /\ last.kind = "should_rotate"
    /\ last.current.present /\ SamePick(last.current, last.candidate)
    /\ last.current.score <= 0 /\ last.candidate.score >= 100000
    /\ last.result = FALSE

(* C25 as stated: for every current pick with score <= 0 and every          *)
(* candidate (any coin, side and score) should_rotate is True               *)
C25_AcceptsWhenCurrentScoreNotPositive ==
    (last.kind = "should_rotate" /\ last.current.present /\ last.current.score <= 0) =>
       last.result = TRUE

(* C25 amended: for every current pick with score <= 0 and every candidate  *)
(* that differs from it in coin or side should_rotate is True               *)
C25_AcceptsOtherPickWhenCurrentScoreNotPositive ==
    (last.kind = "should_rotate" /\ last.current.present /\ last.current.score <= 0
        /\ ~SamePick(last.current, last.candidate)) =>
       last.result = TRUE

(* C25 witness: a candidate on another coin with a lower score than the     *)
(* current pick's non-positive score was accepted                           *)
C25_Witness ==
    /\ last.kind = "should_rotate"
    /\ last.current.present /\ last.current.score = 0
    /\ last.candidate.coin # last.current.coin /\ last.candidate.score < 0
    /\ last.result = TRUE

RatioBar(log) == log.candidate.score * 100 >= log.current.score * log.ratio_x100

DeltaBar(log) == log.candidate.score - log.current.score >= log.abs_delta

(* C26: for a current pick with score > 0 and a candidate differing in coin *)
(* or side, should_rotate is True iff candidate.score >= current.score *    *)
(* ratio and candidate.score - current.score >= abs_delta both hold         *)
C26_RotateNeedsBothBars ==
    (last.kind = "should_rotate" /\ last.current.present /\ last.current.score > 0
        /\ ~SamePick(last.current, last.candidate)) =>
       (last.result = TRUE <=> (RatioBar(last) /\ DeltaBar(last)))

(* C26 witness: a candidate that clears the absolute delta but not the      *)
(* ratio was refused                                                        *)
C26_Witness ==
    /\ last.kind = "should_rotate"
    /\ last.current.present /\ last.current.score > 0
    /\ ~SamePick(last.current, last.candidate)
    /\ DeltaBar(last) /\ ~RatioBar(last) /\ last.abs_delta > 0
    /\ last.result = FALSE

(* a candidate that clears the ratio but not the absolute delta was refused *)
C26_WitnessRatioOnly ==
    /\ last.kind = "should_rotate"
    /\ last.current.present /\ last.current.score > 0
    /\ ~SamePick(last.current, last.candidate)
    /\ RatioBar(last) /\ ~DeltaBar(last)
    /\ last.result = FALSE

(* C27: load_position returns null and does not raise when the file is      *)
(* missing, is not parsable JSON, has position null, has a non-object       *)
(* position or has a position object lacking a required field; a position   *)
(* it returns has every required field taken from the file                  *)
C27_LoadFailsSafe ==
    last.kind = "load" =>
       /\ ~last.raised
       /\ (stateFile.kind # "pos" \/ ~(RequiredKeys \subseteq stateFile.keys)) =>
             last.result = NoPosition
       /\ last.result.present =>
             /\ stateFile.kind = "pos" /\ RequiredKeys \subseteq stateFile.keys
             /\ last.result.coin = stateFile.position.coin
             /\ last.result.side = stateFile.position.side
             /\ last.result.is_open = stateFile.position.is_open
             /\ last.result.opened_at_ms = stateFile.position.opened_at_ms

(* C27 witness: a file whose position object has every field but side was   *)
(* loaded as null without raising                                           *)
C27_Witness ==
    /\ last.kind = "load" /\ ~last.interrupted
    /\ stateFile.kind = "pos" /\ stateFile.keys = DataclassKeys \ {"side"}
    /\ last.result = NoPosition /\ ~last.raised

(* C28: save_position never raises into its caller; on an I/O failure it    *)
(* logs and returns, and the caller's in-memory position is as it was; on   *)
(* success the file holds {"position": null} for a null position and the    *)
(* full field set otherwise                                                 *)
C28_SaveNeverRaises ==
    last.kind = "save" =>
       /\ ~last.raised
       /\ position = last.saved
       /\ last.io # "ok" => last.logged
       /\ last.io = "ok" =>
             /\ ~last.logged
             /\ ~last.saved.present => stateFile = StateFile("null", {}, NoPosition)
             /\ last.saved.present =>
                   /\ stateFile.kind = "pos"
                   /\ stateFile.keys = DataclassKeys
                   /\ stateFile.position = last.saved

(* C28 witness: a save of an open position failed, was logged, and left the *)
(* position in memory                                                       *)
C28_Witness ==
    /\ last.kind = "save" /\ last.io = "fail"
    /\ last.logged /\ ~last.raised
    /\ position.present /\ position.is_open /\ position = last.saved
    /\ stateFile = last.before

(* C29: if the process stops at any point during save_position(new), a      *)
(* following load_position observes the complete previously persisted       *)
(* position or the complete new one; in particular the file never loads as  *)
(* flat when the position persisted before and the new one are both open    *)
C29_SaveIsAtomic ==
    (last.kind = "load" /\ last.interrupted) =>
       LET previous == load_position(last.before)
       IN  /\ current_side(last.result) \in {current_side(previous), current_side(last.saved)}
           /\ current_side(last.result) # "" => last.result \in {previous, last.saved}

ExchangeReportedNoPosition ==
    /\ last.kind = "startup" /\ cfg.ENABLE_LIVE /\ last.sync = "flat"

DerivedFrom(pos, row) ==
    /\ pos.present /\ pos.coin = row.coin /\ pos.is_open
    /\ pos.size = Abs(row.szi)
    /\ row.szi > 0 => pos.side = "LONG_PERP"
    /\ row.szi < 0 => pos.side = "SHORT_PERP"

SyncedFromReport == last.kind = "synced" /\ last.rows # <<>>

IsFetch == pc = "fetch" /\ last.fn = "fetch_latest_snapshot"

FieldMalformed(x) == x.s # "ok"

(* the history is empty, or a time in it is not numeric, or the row         *)
(* parse_latest selects lacks a numeric field among those named             *)
LatestMalformed(history, fields) ==
    \/ history = <<>>
    \/ \E i \in 1..Len(history) : history[i].time.s = "bad"
    \/ LET row == history[parse_latest(history).idx]
       IN  \/ "fundingRate" \in fields /\ FieldMalformed(row.fundingRate)
           \/ "premium" \in fields /\ FieldMalformed(row.premium)
           \/ "time" \in fields /\ FieldMalformed(row.time)

FetchBoundedAndQuiet ==
    IsFetch =>
       /\ ~last.raised
       /\ last.calls <= last.max_retries
       /\ last.attempt >= last.max_retries => last.done
       /\ (last.done /\ last.src.kind # "history") => (~last.snap_present /\ ~last.raw_present)

NullOnMalformed(fields) ==
    (IsFetch /\ last.done /\ last.src.kind = "history"
        /\ LatestMalformed(last.src.history, fields)) => ~last.snap_present

(* C32: fetch_latest_snapshot terminates and never raises: it calls the     *)
(* data source at most max_retries times and then returns (None, None)      *)
(* under transient failures; an empty history or a latest row whose         *)
(* fundingRate, premium or time is missing or not numeric yields a null     *)
(* snapshot                                                                 *)
C32_FetchNeverRaisesNullOnMalformed ==
    /\ FetchBoundedAndQuiet
    /\ NullOnMalformed({"fundingRate", "premium", "time"})

(* what holds of the code: the same with a missing time left out *)
FetchNullOnMalformedRates ==
    /\ FetchBoundedAndQuiet
    /\ NullOnMalformed({"fundingRate", "premium"})

(* the attempt just made ended in an HTTP status *)
AnsweredWithStatus == pc = "fetch" /\ last.src.kind \in {"status", "response"}

NonRetryableStatus(code) == 400 <= code /\ code <= 499 /\ code # 429

ShortCircuitOnNonRetryable ==
    (AnsweredWithStatus /\ NonRetryableStatus(last.src.code)) =>
       /\ last.done /\ ~last.slept
       /\ ~last.snap_present /\ ~last.raw_present /\ ~last.data

(* C33: a non-retryable HTTP status (4xx other than 429) makes              *)
(* fetch_latest_snapshot and post_info return null after that attempt, with *)
(* no further attempt and no backoff sleep, whatever attempts remain; 429   *)
(* and 500..599 are the only statuses that lead to another attempt          *)
C33_OnlyRetryableStatusesRetry ==
    /\ ShortCircuitOnNonRetryable
    /\ (AnsweredWithStatus /\ ~last.done) => is_retryable_http_status(last.src.code)

(* what holds of the code: the same for fetch_latest_snapshot alone *)
FetchOnlyRetryableStatusesRetry ==
    /\ ShortCircuitOnNonRetryable
    /\ (AnsweredWithStatus /\ ~last.done /\ last.fn = "fetch_latest_snapshot") =>
          is_retryable_http_status(last.src.code)



(* ---- order sizing ---- *)

IsSized(fn) == pc = "size" /\ last.fn = fn /\ last.done

C35_SpotSellSizedFromBalance ==
    (IsSized("place_spot_order") /\ last.side = "SELL" /\ last.use_avail /\ last.result.sent) =>
        /\ last.before.kind = "row"
        /\ last.result.size = floor_size(last.before.val, last.sz_decimals)
        /\ last.result.size <= last.before.val

(* with a positive balance read, the SELL is the rounded-down balance *)
SpotSellFromPositiveBalance ==
    (IsSized("place_spot_order") /\ last.side = "SELL" /\ last.use_avail /\ last.result.sent
        /\ last.before.kind = "row" /\ last.before.val > 0) =>
        /\ last.result.size = floor_size(last.before.val, last.sz_decimals)
        /\ last.result.size <= last.before.val

(* ---- cross-coin steps ---- *)

(* C36: while a position is held on one coin, a step on a snapshot of       *)
(* another coin leaves it open: should_close is not evaluated for it, and   *)
(* every CLOSE plan the step executes names the position's coin.            *)
C36_OtherCoinNeverCloses ==
    [][(/\ current_side(position) # ""
        /\ last'.kind = "step" /\ ~last'.dup
        /\ last'.coin # position.coin)
       => (/\ current_side(position') = current_side(position)
           /\ position'.coin = position.coin
           /\ last'.heldAtEval = ""
           /\ \A j \in 1..Len(last'.execs) :
                 last'.execs[j].kind = "CLOSE" => last'.execs[j].coin = position.coin)]_vars

(* the weaker half: a cross-coin step that closes nothing locally *)
OtherCoinCloseNamesSnapshotCoin ==
    [][(/\ current_side(position) # ""
        /\ last'.kind = "step" /\ ~last'.dup
        /\ last'.coin # position.coin)
       => \A j \in 1..Len(last'.execs) :
             last'.execs[j].kind = "CLOSE" => last'.execs[j].coin = last'.coin]_vars

(* ---- agreement with the exchange ---- *)

ExchangeHolds(e) == \E c \in COINS : e.perp[c] # 0

Reconciled == last.kind = "startup" /\ last.sync \in {"flat", "exchange"}

LocalAgreesWithExchange == (current_side(position) # "") <=> ExchangeHolds(ex)

(* C37: after a completed startup reconciliation, whatever the orders of    *)
(* the first loop cycle do, if live trading is enabled at the start of the  *)
(* next cycle then current_side() is non-null exactly when the exchange     *)
(* holds a non-zero perp position.                                          *)
C37_LiveImpliesAgreement ==
    [][(Reconciled /\ live_enabled') => LocalAgreesWithExchange']_vars

(* the reconciliation itself leaves local state in agreement *)
ReconciledAgrees == Reconciled => LocalAgreesWithExchange

(* agreement holds as long as no leg of a live hedge has failed *)
AgreementUntilLegFailure ==
    [](Reconciled => []((pc = "loop" /\ live_enabled /\ ~legFailed) => LocalAgreesWithExchange))

(* ---- pending validations and the open position ---- *)

ArmedFor(c) ==
    /\ current_side(position) # ""
    /\ position.coin = c
    /\ position.side = pending[c].side
    /\ position.opened_at_ms = pending[c].opened_at_ms

(* C38: a pending post-funding validation exists for a coin only while the  *)
(* open position is on that coin and is the one whose OPEN armed it; none   *)
(* is left while flat or for a later, different position.                   *)
C38_PendingOnlyForOpenPosition ==
    \A c \in COINS : pending[c].present => ArmedFor(c)

(* a step on the position's own coin that closes it removes that coin's entry *)
OwnCoinCloseRemovesPending ==
    [][(/\ current_side(position) # ""
        /\ last'.kind = "step" /\ last'.coin = position.coin
        /\ HasStatus("CLOSED")')
       => (current_side(position') = "" => ~pending'[position.coin].present)]_vars

(* ---- startup query failure ---- *)

StartupSyncFailed == last.kind = "startup" /\ last.sync = "failed"

(* a live hedge went through in this step: execute returned ok and verified *)
LiveOrderExecuted == IsStep /\ (VerifiedExec("OPEN") \/ VerifiedExec("CLOSE"))

(* C39: when the startup exchange query failed while live trading was       *)
(* enabled, the loop cycle that follows gets no live order through: live    *)
(* orders are submitted only after a completed startup reconciliation.      *)
C39_NoLiveOrdersAfterFailedSync ==
    [][StartupSyncFailed => ~LiveOrderExecuted']_vars

(* the failed query leaves live trading enabled *)
FailedSyncKeepsLiveEnabled == StartupSyncFailed => live_enabled

====
